---- MODULE Spec2Model ----
(***************************************************************************)
(* RvFun: functional model of a 64-bit RISC-V hart.                        *)
(*                                                                         *)
(* A 64-bit quantity (register, address, immediate) is a tuple of four     *)
(* 16-bit limbs, least significant first, so that unsigned wrap-around,    *)
(* truncation and sign extension are those of the C++ types.               *)
(* A byte of memory is a number 0..255.                                    *)
(***************************************************************************)
EXTENDS Integers, Sequences, FiniteSets, TLC

VARIABLES
    pc,        \* SimpleArchState::pc_
    ireg,      \* SimpleArchState::ireg[32]
    freg,      \* SimpleArchState::freg[32], the raw 64 bits
    cregs,     \* SimpleArchState::cregs_ (std::map csr -> value)
    blocks,    \* SparseMem::blocks_ (vector of MemBlock, in insertion order)
    host,      \* HostSystem: exited_, top_of_mem_, fds_, and what it sent to the host
    run,       \* main(): icount, max_icount, and whether the loop is still running
    junk,      \* the byte an out-of-bounds heap read observes (undefined behaviour)
    env,       \* what the build and the host do: whether undefined behaviour
               \* traps, whether the host's file calls fail
    crashed,   \* the host process was killed (trap, heap corruption)
    hung,      \* the simulator is inside a call that does not return
    steps,     \* number of calls made so far by the caller of the API
    last       \* the last call and what it returned

vars == <<pc, ireg, freg, cregs, blocks, host, run, junk, env, crashed, hung, steps, last>>

\* what a call on the sparse memory alone leaves as it is
notMem == <<pc, ireg, freg, cregs, host, run, junk, env, hung>>

-----------------------------------------------------------------------------
(* Bounds of the model *)

\* calls made on the sparse-memory API in one behaviour
MaxMemOps == 3

\* bytes an out-of-bounds read of the heap may observe
JunkBytes == {0, 238}

-----------------------------------------------------------------------------
(* 64-bit unsigned arithmetic on four 16-bit limbs, least significant first *)

L16 == 256 * 256

Z64 == <<0, 0, 0, 0>>
Ones64 == <<65535, 65535, 65535, 65535>>

\* the value of a number 0 <= n < 2^31
FromNat(n) == <<n % L16, n \div L16, 0, 0>>

Not64(a) == <<65535 - a[1], 65535 - a[2], 65535 - a[3], 65535 - a[4]>>

\* two's complement value of a small integer: int64_t converted to uint64_t
FromInt(n) == IF n >= 0 THEN FromNat(n) ELSE Not64(FromNat(-n - 1))

\* the number held by a value below 2^31
ToNat(a) == a[1] + L16 * a[2]

\* limbs k..4 of a + b + c, c the carry into limb k
RECURSIVE AddLimbs(_, _, _, _)
AddLimbs(a, b, c, k) ==
    IF k > 4 THEN <<>>
    ELSE LET s == a[k] + b[k] + c
         IN  <<s % L16>> \o AddLimbs(a, b, s \div L16, k + 1)

\* a + b + c modulo 2^64, c a carry of 0 or 1
AddC(a, b, c) == AddLimbs(a, b, c, 1)

Add64(a, b) == AddC(a, b, 0)
Sub64(a, b) == AddC(a, Not64(b), 1)

LtU(a, b) ==
    IF a[4] # b[4] THEN a[4] < b[4]
    ELSE IF a[3] # b[3] THEN a[3] < b[3]
    ELSE IF a[2] # b[2] THEN a[2] < b[2]
    ELSE a[1] < b[1]
LeU(a, b) == a = b \/ LtU(a, b)

IsNeg(a) == a[4] >= 32768
LtS(a, b) == IF IsNeg(a) # IsNeg(b) THEN IsNeg(a) ELSE LtU(a, b)

\* conversion to uint32_t and back to 64 bits
Zext32(a) == <<a[1], a[2], 0, 0>>
\* conversion to int32_t, int16_t, int8_t and back to 64 bits
Sext32(a) == LET s == IF a[2] >= 32768 THEN 65535 ELSE 0 IN <<a[1], a[2], s, s>>
Sext16(a) == LET s == IF a[1] >= 32768 THEN 65535 ELSE 0 IN <<a[1], s, s, s>>
Sext8(a)  == LET b == a[1] % 256
             IN  IF b >= 128 THEN <<b + 65280, 65535, 65535, 65535>> ELSE <<b, 0, 0, 0>>

\* bitwise AND of two naturals
RECURSIVE BitAnd(_, _)
BitAnd(x, y) ==
    IF x = 0 \/ y = 0 THEN 0
    ELSE (x % 2) * (y % 2) + 2 * BitAnd(x \div 2, y \div 2)

And64(a, b) ==
    <<BitAnd(a[1], b[1]), BitAnd(a[2], b[2]), BitAnd(a[3], b[3]), BitAnd(a[4], b[4])>>
Or64(a, b)  == LET c == And64(a, b)
               IN  <<a[1] + b[1] - c[1], a[2] + b[2] - c[2],
                     a[3] + b[3] - c[3], a[4] + b[4] - c[4]>>
Xor64(a, b) == LET c == And64(a, b)
               IN  <<a[1] + b[1] - 2 * c[1], a[2] + b[2] - 2 * c[2],
                     a[3] + b[3] - 2 * c[3], a[4] + b[4] - 2 * c[4]>>

\* limb j of a, fill outside 1..4
Limb(a, j, fill) == IF j \in 1..4 THEN a[j] ELSE fill

\* a << k, 0 <= k <= 63
Shl64(a, k) ==
    LET q == k \div 16
        r == k % 16
        l(i) == (Limb(a, i - q, 0) % (2 ^ (16 - r))) * (2 ^ r)
                + (Limb(a, i - q - 1, 0) \div (2 ^ (16 - r)))
    IN  <<l(1), l(2), l(3), l(4)>>

\* a >> k with the vacated bits set to those of fill (0 or 65535), 0 <= k <= 63
ShrFill(a, k, fill) ==
    LET q == k \div 16
        r == k % 16
        l(i) == (Limb(a, i + q, fill) \div (2 ^ r))
                + (Limb(a, i + q + 1, fill) % (2 ^ r)) * (2 ^ (16 - r))
    IN  <<l(1), l(2), l(3), l(4)>>

\* uint64_t >> k and int64_t >> k
Shr64(a, k) == ShrFill(a, k, 0)
Sra64(a, k) == ShrFill(a, k, IF IsNeg(a) THEN 65535 ELSE 0)

\* byte k (0 = least significant) of a value: memcpy on a little-endian host
ByteOf(v, k) ==
    IF k % 2 = 0 THEN v[(k \div 2) + 1] % 256 ELSE v[(k \div 2) + 1] \div 256

\* the value whose bytes are bs[1] (least significant) .. bs[Len(bs)], Len(bs) <= 8
FromBytes(bs) ==
    LET byte(k) == IF k <= Len(bs) THEN bs[k] ELSE 0
    IN  <<byte(1) + 256 * byte(2), byte(3) + 256 * byte(4),
          byte(5) + 256 * byte(6), byte(7) + 256 * byte(8)>>

\* bit i (0..63) of a
Bit64(a, i) == (a[(i \div 16) + 1] \div (2 ^ (i % 16))) % 2

\* the 8 bytes of a value, least significant first (indices 1..8)
Bytes8(a) ==
    <<a[1] % 256, a[1] \div 256, a[2] % 256, a[2] \div 256,
      a[3] % 256, a[3] \div 256, a[4] % 256, a[4] \div 256>>

\* sum of A[i] * B[k + 2 - i] over the byte indices i..hi of one column
RECURSIVE ColSum(_, _, _, _, _)
ColSum(A, B, k, i, hi) ==
    IF i > hi THEN 0 ELSE A[i] * B[k + 2 - i] + ColSum(A, B, k, i + 1, hi)

\* bytes k..16 of the 128-bit product of the byte strings A and B
RECURSIVE MulCols(_, _, _, _)
MulCols(A, B, k, carry) ==
    IF k > 16 THEN <<>>
    ELSE LET lo  == IF k > 8 THEN k - 7 ELSE 1
             hi  == IF k > 8 THEN 8 ELSE k
             sum == carry + ColSum(A, B, k - 1, lo, hi)
         IN  <<sum % 256>> \o MulCols(A, B, k + 1, sum \div 256)

\* the unsigned 128-bit product of a and b: <<low 64 bits, high 64 bits>>
Mul128(a, b) ==
    LET p == MulCols(Bytes8(a), Bytes8(b), 1, 0)
    IN  <<FromBytes(SubSeq(p, 1, 8)), FromBytes(SubSeq(p, 9, 16))>>

\* uint64_t operator*
Mul64(a, b) == Mul128(a, b)[1]

\* high 64 bits of the signed 128-bit product of a and b
MulHighS(a, b) ==
    LET h  == Mul128(a, b)[2]
        h1 == IF IsNeg(a) THEN Sub64(h, b) ELSE h
    IN  IF IsNeg(b) THEN Sub64(h1, a) ELSE h1

\* restoring division, bits i down to 0 of a; qr is <<quotient, remainder>>
RECURSIVE DivStep(_, _, _, _)
DivStep(a, b, i, qr) ==
    IF i < 0 \/ Len(qr) # 2 THEN qr
    ELSE LET q   == qr[1]
             r   == qr[2]
             top == r[4] >= 32768
             r2  == Add64(Shl64(r, 1), FromNat(Bit64(a, i)))
             sub == top \/ ~LtU(r2, b)
         IN  DivStep(a, b, i - 1,
                     <<IF sub THEN Add64(Shl64(q, 1), FromNat(1)) ELSE Shl64(q, 1),
                       IF sub THEN Sub64(r2, b) ELSE r2>>)

\* uint64_t operator/ and operator% for b # 0
DivU64(a, b) == DivStep(a, b, 63, <<Z64, Z64>>)[1]
RemU64(a, b) == DivStep(a, b, 63, <<Z64, Z64>>)[2]

Neg64(a) == Sub64(Z64, a)
Abs64(a) == IF IsNeg(a) THEN Neg64(a) ELSE a

\* int64_t operator/ and operator% (truncation towards zero) for b # 0
DivS64(a, b) ==
    LET q == DivU64(Abs64(a), Abs64(b))
    IN  IF IsNeg(a) # IsNeg(b) THEN Neg64(q) ELSE q
RemS64(a, b) ==
    LET r == RemU64(Abs64(a), Abs64(b))
    IN  IF IsNeg(a) THEN Neg64(r) ELSE r

-----------------------------------------------------------------------------
(* SparseMem: a vector of blocks [va, sz, mem].  mem maps the offsets
   (64-bit values) that hold a non-zero byte to that byte; every other
   offset below sz holds 0. *)

NoData == <<>>

EmptyMem == [o \in {} |-> 0]

MemByte(b, off) == IF off \in DOMAIN b.mem THEN b.mem[off] ELSE 0

\* mem with the bytes bs (a sequence) stored from offset off on, offsets
\* at or past sz left alone (they are outside the buffer)
StoreBytes(mem, sz, off, bs) ==
    LET tgt(k) == Add64(off, FromNat(k - 1))
        hit    == {tgt(k) : k \in {j \in 1..Len(bs) : LtU(tgt(j), sz)}}
        new(o) == bs[CHOOSE k \in 1..Len(bs) : tgt(k) = o]
        val(o) == IF o \in hit THEN new(o) ELSE mem[o]
        dom    == {o \in DOMAIN mem \cup hit : val(o) # 0}
    IN  [o \in dom |-> val(o)]

\* MemBlock::MemBlock: malloc + memcpy of sz bytes of data, or calloc
MemBlock(va, sz, data) ==
    [va |-> va, sz |-> sz,
     mem |-> IF data = NoData THEN EmptyMem
             ELSE StoreBytes(EmptyMem, sz, Z64, SubSeq(data, 1, ToNat(sz)))]

BlockEnd(b) == Add64(b.va, b.sz)

\* the least index of a set of indices (the loops over the blocks stop at
\* the first match), or 0 when there is none
First(S) == IF S = {} THEN 0 ELSE CHOOSE i \in S : \A j \in S : i <= j

\* index of the first block whose end is va (the block addBlock grows), or 0
GrowIdx(blks, va) == First({i \in 1..Len(blks) : BlockEnd(blks[i]) = va})

\* number of bytes the copy loop of the grow branch stores past the end of
\* the reallocated buffer: it runs over the summed size, from offset b->sz on
GrowOverrun(blks, va, sz, data) ==
    LET g == GrowIdx(blks, va)
    IN  IF g = 0 \/ data = NoData THEN Z64
        ELSE LET nsz == Zext32(Add64(sz, blks[g].sz))
             IN  IF LtU(nsz, blks[g].sz) THEN nsz ELSE blks[g].sz

\* SparseMem::addBlock
addBlock(blks, va, sz, data) ==
    LET g == GrowIdx(blks, va)
    IN  IF g = 0 THEN Append(blks, MemBlock(va, sz, data))
        ELSE LET b     == blks[g]
                 nsz   == Zext32(Add64(sz, b.sz))
                 kept  == [o \in {x \in DOMAIN b.mem : LtU(x, nsz)} |-> b.mem[o]]
                 grown == IF data = NoData THEN kept
                          ELSE StoreBytes(kept, nsz, Sub64(va, b.va),
                                          SubSeq(data, 1, ToNat(sz)))
             IN  [blks EXCEPT ![g] = [va |-> b.va, sz |-> nsz, mem |-> grown]]

\* the test of readMem and writeMem: the block starts at or left of va, ends
\* past va and covers the access (all in uint64_t arithmetic)
Serves(b, va, sz) ==
    /\ LeU(b.va, va)
    /\ LtU(va, BlockEnd(b))
    /\ LeU(Add64(va, FromNat(sz)), BlockEnd(b))

\* index of the first block that serves the access, or 0
ServeIdx(blks, va, sz) == First({i \in 1..Len(blks) : Serves(blks[i], va, sz)})

\* number of bytes of the access that lie past the buffer of the block that
\* serves it (possible when va + sz wraps around 2^64)
AccessOverrun(blks, va, sz) ==
    LET g == ServeIdx(blks, va, sz)
    IN  IF g = 0 THEN 0
        ELSE Cardinality({k \in 0..(sz - 1) :
                 ~LtU(Add64(Sub64(va, blks[g].va), FromNat(k)), blks[g].sz)})

\* SparseMem::readMem; jb is the byte read from outside the buffer
readMem(blks, va, sz, jb) ==
    LET g == ServeIdx(blks, va, sz)
    IN  IF g = 0 THEN Z64
        ELSE LET b       == blks[g]
                 base    == Sub64(va, b.va)
                 off(k)  == Add64(base, FromNat(k - 1))
                 byte(k) == IF LtU(off(k), b.sz) THEN MemByte(b, off(k)) ELSE jb
             IN  FromBytes([k \in 1..sz |-> byte(k)])

\* a writeMem whose memcpy copies one byte too few
writeMemShort(blks, va, sz, val, jb) ==
    LET g == ServeIdx(blks, va, sz)
    IN  IF g = 0 THEN blks
        ELSE [blks EXCEPT ![g].mem =
                 StoreBytes(blks[g].mem, blks[g].sz, Sub64(va, blks[g].va),
                            [k \in 1..(sz - 1) |-> ByteOf(val, k - 1)])]

\* SparseMem::writeMem; memcpy takes sz bytes from the 8-byte val: bytes past
\* the eighth come from whatever follows val in the caller's frame (jb)
writeMem(blks, va, sz, val, jb) ==
    LET g == ServeIdx(blks, va, sz)
    IN  IF g = 0 THEN blks
        ELSE LET b == blks[g]
             IN  [blks EXCEPT ![g].mem =
                     StoreBytes(b.mem, b.sz, Sub64(va, b.va),
                                [k \in 1..sz |-> IF k <= 8 THEN ByteOf(val, k - 1) ELSE jb])]

-----------------------------------------------------------------------------
(* SimpleArchState *)

Regs == 0..31

\* SimpleArchState::getReg
getReg(ir, num) == IF num = 0 THEN Z64 ELSE ir[num]

\* SimpleArchState::setReg
\* a setReg without the test of num
setRegAny(ir, num, val) == [ir EXCEPT ![num] = val]

setReg(ir, num, val) == IF num = 0 THEN ir ELSE [ir EXCEPT ![num] = val]

\* the CSR numbers of simple_arch_state.cpp
FFLAGS == 1
FRM == 2
FCSR == 3

\* SimpleArchState::parentCsr: its parameter is a uint16_t
parentCsr(csr) ==
    LET c == csr % L16
    IN  IF c = FFLAGS \/ c = FRM THEN FCSR ELSE c

\* SimpleArchState::getCr; cr is cregs_, a function from the CSR numbers
\* present to their values
getCr(cr, csr) ==
    LET p == parentCsr(csr)
    IN  IF p \notin DOMAIN cr THEN Z64
        ELSE IF csr = FRM THEN And64(Shr64(cr[p], 5), FromNat(7))
        ELSE IF csr = FFLAGS THEN And64(cr[p], FromNat(31))
        ELSE cr[p]

\* a setCr that stores the field without merging it into the parent value
setCrWhole(cr, csr, val0) ==
    LET val == IF csr = FRM THEN Shl64(And64(val0, FromNat(7)), 5)
               ELSE IF csr = FFLAGS THEN And64(val0, FromNat(31))
               ELSE val0
    IN  [c \in DOMAIN cr \cup {parentCsr(csr)} |->
            IF c = parentCsr(csr) THEN val ELSE cr[c]]

\* SimpleArchState::setCr
setCr(cr, csr, val0) ==
    LET actual_csr == parentCsr(csr)
        found   == actual_csr \in DOMAIN cr
        partial == csr = FRM \/ csr = FFLAGS
        mask    == IF csr = FRM THEN Not64(FromNat(224))
                   ELSE IF csr = FFLAGS THEN Not64(FromNat(31))
                   ELSE Z64
        val1    == IF csr = FRM THEN Shl64(And64(val0, FromNat(7)), 5)
                   ELSE IF csr = FFLAGS THEN And64(val0, FromNat(31))
                   ELSE val0
        val     == IF found /\ partial THEN Or64(val1, And64(cr[actual_csr], mask))
                   ELSE val1
    IN  [c \in DOMAIN cr \cup {actual_csr} |-> IF c = actual_csr THEN val ELSE cr[c]]

-----------------------------------------------------------------------------
(* The machine an instruction executes on: a record s with the fields
     pc, ireg, freg, cregs   SimpleArchState
     blocks                   the SparseMem behind SimpleArchState::mem_
     host                     the HostSystem behind SimpleArchState::sys_
     crashed                  the host process was killed
     hung                     the simulator is inside a call that does not return
     junk, trap               what undefined behaviour does: the byte it
                              produces, and whether it kills the process
     hostfail                 whether the host's file calls fail *)

GetReg(s, num) == getReg(s.ireg, num)
SetReg(s, num, val) == [s EXCEPT !.ireg = setReg(@, num, val)]

\* SimpleArchState::incPc, setPc
IncPc(s, delta) == [s EXCEPT !.pc = Add64(@, delta)]
SetPc(s, val) == [s EXCEPT !.pc = val]

\* SimpleArchState::readMem, readImem
ReadMem(s, va, sz) == readMem(s.blocks, va, sz, s.junk)

\* SimpleArchState::writeMem; a memcpy that runs past the block's buffer
\* corrupts the heap and may kill the process
WriteMem(s, va, sz, val) ==
    [s EXCEPT !.blocks = writeMem(@, va, sz, val, s.junk),
              !.crashed = @ \/ (s.trap /\ AccessOverrun(s.blocks, va, sz) > 0)]

\* a value produced by undefined behaviour
Arb64(s) == <<s.junk * 257, s.junk * 257, s.junk * 257, s.junk * 257>>

\* SimpleArchState::getFpRaw, setFpRaw, setDouble (the raw 64 bits)
GetFpRaw(s, num) == s.freg[num]
SetFpRaw(s, num, val) == [s EXCEPT !.freg[num] = val]

\* SimpleArchState::setFloat: the float's 32 bits under 32 one bits
SetFloat(s, num, bits) ==
    [s EXCEPT !.freg[num] = <<bits[1], bits[2], 65535, 65535>>]

\* float (the low 32 bits of raw) converted to double and then to uint64_t:
\* the value truncated towards zero; undefined for a NaN, an infinity, a
\* value of 2^64 or more, or a value of -1 or less
FloatToU64(s, raw) ==
    LET neg == raw[2] >= 32768
        e   == (raw[2] % 32768) \div 128
        m   == (raw[2] % 128) * L16 + raw[1]
    IN  IF e < 127 THEN Z64
        ELSE IF e = 255 \/ e > 190 \/ neg THEN Arb64(s)
        ELSE IF e >= 150 THEN Shl64(FromNat(8388608 + m), e - 150)
        ELSE FromNat((8388608 + m) \div (2 ^ (150 - e)))

\* the result of an IEEE-754 operation (arithmetic, rounding, a conversion
\* between formats or to and from an integer): not computed by the model, it
\* is the value the step's oracle supplies
FpArb(s) == Arb64(s)

\* n bits of x from bit lo up: (x >> lo) & (2^n - 1)
Bits(x, lo, n) == (x \div (2 ^ lo)) % (2 ^ n)
Bit(x, k) == Bits(x, k, 1)

\* new_pc with its bottom bit cleared: if (new_pc & 1) --new_pc
ClearBit0(a) == <<a[1] - (a[1] % 2), a[2], a[3], a[4]>>

-----------------------------------------------------------------------------
(* The compressed instructions: one operator per class of arch_decode.cpp,
   its execute() applied to the instruction record i and the machine s *)

CompLI(i, s) == IncPc(SetReg(s, i.rd, FromInt(i.imm)), FromNat(2))

CompAlu(i, s) ==
    LET rs == GetReg(s, i.rsd)
        r2 == GetReg(s, i.r2)
        v  == CASE i.fun = 0 -> Sub64(rs, r2)
                [] i.fun = 1 -> Xor64(rs, r2)
                [] i.fun = 2 -> Or64(rs, r2)
                [] i.fun = 3 -> And64(rs, r2)
    IN  IncPc(SetReg(s, i.rsd, v), FromNat(2))

\* rs, r2 and v are uint32_t: v reaches setReg zero-extended
CompAluW(i, s) ==
    LET rs == Zext32(GetReg(s, i.rsd))
        r2 == Zext32(GetReg(s, i.r2))
        v  == CASE i.fun = 0 -> Zext32(Sub64(rs, r2))
                [] i.fun = 1 -> Zext32(Add64(rs, r2))
                [] OTHER -> Z64
    IN  IncPc(SetReg(s, i.rsd, v), FromNat(2))

CompJr(i, s) == SetPc(s, GetReg(s, i.rd))

CompMv(i, s) == IncPc(SetReg(s, i.rd, GetReg(s, i.rs)), FromNat(2))

CompLdwSp(i, s) ==
    LET ea  == Add64(GetReg(s, 2), FromInt(i.imm))
        val == IF i.sz = 4 THEN Sext32(ReadMem(s, ea, 4)) ELSE ReadMem(s, ea, i.sz)
    IN  IncPc(SetReg(s, i.rd, val), FromNat(2))

CompAddI4SpN(i, s) ==
    IncPc(SetReg(s, i.rd, Add64(GetReg(s, 2), FromInt(i.imm))), FromNat(2))

CompAddI16Sp(i, s) ==
    IncPc(SetReg(s, 2, Add64(GetReg(s, 2), FromInt(i.imm))), FromNat(2))

CompSdwSp(i, s) ==
    IncPc(WriteMem(s, Add64(GetReg(s, 2), FromInt(i.imm)), i.sz, GetReg(s, i.rs)),
          FromNat(2))

CompSllI(i, s) == IncPc(SetReg(s, i.rd, Shl64(GetReg(s, i.rd), i.sft)), FromNat(2))

CompAdd(i, s) ==
    IncPc(SetReg(s, i.rd, Add64(GetReg(s, i.rd), GetReg(s, i.rs))), FromNat(2))

CompAddI(i, s) ==
    IncPc(SetReg(s, i.rd, Add64(GetReg(s, i.rd), FromInt(i.imm))), FromNat(2))

CompAddIw(i, s) ==
    IncPc(SetReg(s, i.rd, Sext32(Add64(GetReg(s, i.rd), FromInt(i.imm)))), FromNat(2))

CompBz(i, s) ==
    LET val   == GetReg(s, i.rs)
        taken == (i.eq /\ val = Z64) \/ (~i.eq /\ val # Z64)
    IN  IF taken THEN IncPc(s, FromInt(i.imm)) ELSE IncPc(s, FromNat(2))

CompLd(i, s) ==
    IncPc(SetReg(s, i.rd, ReadMem(s, Add64(GetReg(s, i.rs), FromInt(i.imm)), 8)),
          FromNat(2))

CompJ(i, s) == SetPc(s, Add64(s.pc, FromInt(i.imm)))

CompSdw(i, s) ==
    IncPc(WriteMem(s, Add64(GetReg(s, i.rbase), FromInt(i.imm)), i.sz,
                   GetReg(s, i.rsrc)),
          FromNat(2))

CompLui(i, s) == IncPc(SetReg(s, i.rd, FromInt(i.imm)), FromNat(2))

CompLw(i, s) ==
    LET ea == Add64(GetReg(s, i.rbase), FromInt(i.imm))
    IN  IncPc(SetReg(s, i.rd, Sext32(ReadMem(s, ea, 4))), FromNat(2))

Candi(i, s) ==
    IncPc(SetReg(s, i.rsd, And64(GetReg(s, i.rsd), FromInt(i.imm))), FromNat(2))

\* the link register is written before rs is read
CompJalr(i, s) ==
    LET linked == SetReg(s, 1, Add64(s.pc, FromNat(2)))
    IN  SetPc(linked, ClearBit0(GetReg(linked, i.rs)))

CompShiftRight(i, s) ==
    LET val == GetReg(s, i.rsd)
    IN  IncPc(SetReg(s, i.rsd,
                     IF i.arith THEN Sra64(val, i.imm) ELSE Shr64(val, i.imm)),
              FromNat(2))

\* the store data is the register's float converted to double and then to
\* the uint64_t parameter of writeMem
CompFsd(i, s) ==
    IncPc(WriteMem(s, Add64(GetReg(s, i.rbase), FromInt(i.imm)), 8,
                   FloatToU64(s, GetFpRaw(s, i.rsrc))),
          FromNat(2))

\* the 8 bytes are read as a double and handed to setFloat(float)
CompFpLd(i, s) ==
    IncPc(SetFloat(s, i.rd, FpArb(s)), FromNat(2))

-----------------------------------------------------------------------------
(* decode16.  An opcode halfword is a number 0..65535; an instruction is a
   record whose cls names its class and whose other fields are the
   constructor's arguments, converted to the types of the members. *)

\* nullptr
NoInst == [cls |-> "null"]

\* opc[12] and opc[6:2] as a sign-extended 6-bit immediate (int8_t raw_bits)
CImm6(opc) == Bits(opc, 2, 5) - 32 * Bit(opc, 12)

\* o10 == 0: memory
decode16Q0(opc) ==
    LET o15_13 == Bits(opc, 13, 3)
        r1p    == Bits(opc, 7, 3) + 8
        r2p    == Bits(opc, 2, 3) + 8
        immD   == Bits(opc, 10, 3) * 8 + Bits(opc, 5, 2) * 64
        immW   == Bits(opc, 10, 3) * 8 + Bit(opc, 5) * 64 + Bit(opc, 6) * 4
        immS   == Bits(opc, 10, 3) * 8 + Bit(opc, 5) * 64 + Bit(opc, 6) * 128
    IN  CASE o15_13 = 0 ->
               [cls |-> "CompAddI4SpN", rd |-> r2p,
                imm |-> Bits(opc, 7, 4) * 64 + Bits(opc, 11, 2) * 16
                        + Bit(opc, 6) * 4 + Bit(opc, 5) * 8]
          [] o15_13 = 1 -> [cls |-> "CompFpLd", imm |-> immD, rs |-> r1p, rd |-> r2p]
          [] o15_13 = 2 -> [cls |-> "CompLw", imm |-> immW, rbase |-> r1p, rd |-> r2p]
          [] o15_13 = 3 -> [cls |-> "CompLd", imm |-> immD, rs |-> r1p, rd |-> r2p]
          [] o15_13 = 5 -> [cls |-> "CompFsd", imm |-> immS, rbase |-> r1p, rsrc |-> r2p]
          [] o15_13 = 6 ->
               [cls |-> "CompSdw", imm |-> immW, rbase |-> r1p, rsrc |-> r2p, sz |-> 4]
          [] o15_13 = 7 ->
               [cls |-> "CompSdw", imm |-> immS, rbase |-> r1p, rsrc |-> r2p, sz |-> 8]
          [] OTHER -> NoInst

\* o10 == 1: common compressed ops
decode16Q1(opc) ==
    LET o15_13   == Bits(opc, 13, 3)
        rd       == Bits(opc, 7, 5)
        rsd      == Bits(opc, 7, 3) + 8
        op_11_10 == Bits(opc, 10, 2)
    IN  CASE o15_13 = 0 -> [cls |-> "CompAddI", imm |-> CImm6(opc), rd |-> rd]
          [] o15_13 = 1 -> [cls |-> "CompAddIw", imm |-> CImm6(opc), rd |-> rd]
          [] o15_13 = 2 -> [cls |-> "CompLI", rd |-> rd, imm |-> CImm6(opc)]
          [] o15_13 = 3 ->
               IF rd = 2
               THEN [cls |-> "CompAddI16Sp",
                     imm |-> Bits(opc, 3, 2) * 128 + Bit(opc, 6) * 16 + Bit(opc, 5) * 64
                             + Bit(opc, 2) * 32 - 512 * Bit(opc, 12)]
               ELSE [cls |-> "CompLui", rd |-> rd,
                     imm |-> Bits(opc, 2, 5) * 4096 - 131072 * Bit(opc, 12)]
          [] o15_13 = 4 ->
               IF op_11_10 \in {0, 1}
               THEN [cls |-> "CompShiftRight", rsd |-> rsd, arith |-> (op_11_10 = 1),
                     imm |-> Bits(opc, 2, 5) + 32 * Bit(opc, 12)]
               ELSE IF op_11_10 = 2
               THEN [cls |-> "Candi", imm |-> CImm6(opc), rsd |-> rsd]
               ELSE [cls |-> IF Bit(opc, 12) = 1 THEN "CompAluW" ELSE "CompAlu",
                     fun |-> Bits(opc, 5, 2), r2 |-> Bits(opc, 2, 3) + 8, rsd |-> rsd]
          [] o15_13 = 5 ->
               [cls |-> "CompJ",
                imm |-> Bits(opc, 9, 2) * 256 + Bit(opc, 2) * 32 + Bit(opc, 3) * 2
                        + Bit(opc, 4) * 4 + Bit(opc, 5) * 8 + Bit(opc, 6) * 128
                        + Bit(opc, 7) * 64 + Bit(opc, 8) * 1024 + Bit(opc, 11) * 16
                        - 2048 * Bit(opc, 12)]
          [] o15_13 \in {6, 7} ->
               [cls |-> "CompBz", eq |-> (o15_13 = 6), rs |-> rsd,
                imm |-> Bits(opc, 5, 2) * 64 + Bit(opc, 2) * 32 + Bit(opc, 3) * 2
                        + Bit(opc, 4) * 4 + Bit(opc, 10) * 8 + Bit(opc, 11) * 16
                        - 256 * Bit(opc, 12)]

\* o10 == 2: more ops
decode16Q2(opc) ==
    LET o15_12 == Bits(opc, 12, 4)
        rd     == Bits(opc, 7, 5)
        rs     == Bits(opc, 2, 5)
    IN  CASE o15_12 < 2 ->
               [cls |-> "CompSllI", sft |-> Bits(opc, 2, 5) + 32 * Bit(opc, 12), rd |-> rd]
          [] o15_12 \in {4, 5} ->
               [cls |-> "CompLdwSp", rd |-> rd, sz |-> 4,
                imm |-> Bits(opc, 2, 2) * 64 + 32 * Bit(opc, 12) + Bits(opc, 5, 2) * 8]
          [] o15_12 \in {6, 7} ->
               [cls |-> "CompLdwSp", rd |-> rd, sz |-> 8,
                imm |-> Bits(opc, 2, 3) * 64 + 32 * Bit(opc, 12) + Bits(opc, 5, 2) * 8]
          [] o15_12 = 8 ->
               IF rs = 0 THEN [cls |-> "CompJr", rd |-> rd]
               ELSE [cls |-> "CompMv", rs |-> rs, rd |-> rd]
          [] o15_12 = 9 ->
               IF rd = 0 THEN NoInst
               ELSE IF rs = 0 THEN [cls |-> "CompJalr", rs |-> rd]
               ELSE [cls |-> "CompAdd", rs |-> rs, rd |-> rd]
          [] o15_12 \in {12, 13} ->
               [cls |-> "CompSdwSp", rs |-> rs, sz |-> 4,
                imm |-> Bits(opc, 7, 2) * 64 + Bits(opc, 9, 4) * 4]
          [] o15_12 \in {14, 15} ->
               [cls |-> "CompSdwSp", rs |-> rs, sz |-> 8,
                imm |-> Bits(opc, 7, 3) * 64 + Bits(opc, 10, 3) * 8]
          [] OTHER -> NoInst

decode16(opc) ==
    CASE opc % 4 = 0 -> decode16Q0(opc)
      [] opc % 4 = 1 -> decode16Q1(opc)
      [] opc % 4 = 2 -> decode16Q2(opc)
      [] OTHER -> NoInst

-----------------------------------------------------------------------------
(* Undefined behaviour in an instruction's arithmetic *)

\* the value of an expression with undefined behaviour (a shift by more
\* than the width, a signed overflow): what the host's instruction computes
\* (hw), or anything else the compiler makes of it
UbValue(s, hw) == IF s.junk = 0 THEN hw ELSE Arb64(s)

\* a host instruction that may trap (integer division by zero, or of the
\* most negative value by -1): the process is killed by the signal, and
\* nothing after the expression is executed, or execution goes on at cont
Trap(s, cont) == IF s.trap THEN [s EXCEPT !.crashed = TRUE] ELSE cont

-----------------------------------------------------------------------------
(* Single-precision values, as the 32 bits in the two low limbs *)

F32Exp(b)  == (b[2] % 32768) \div 128
F32Man(b)  == (b[2] % 128) * L16 + b[1]
F32Sign(b) == b[2] \div 32768

IsNaN32(b) == F32Exp(b) = 255 /\ F32Man(b) # 0

\* v < 0 for the float v: false for -0.0 and for a NaN
F32Less0(b) == F32Sign(b) = 1 /\ ~IsNaN32(b) /\ (F32Exp(b) # 0 \/ F32Man(b) # 0)

\* -v: the sign bit flipped
F32Neg(b) == <<b[1], (b[2] + 32768) % L16, 0, 0>>

\* a float converted to double and back to float, as setFloat(num, double)
\* does it: the same bits, except that what becomes of a NaN is the host's
FloatViaDouble(s, b) == IF IsNaN32(b) THEN FpArb(s) ELSE <<b[1], b[2], 0, 0>>

\* the position of the top set bit of m > 0
RECURSIVE TopBit(_)
TopBit(m) == IF m < 2 THEN 0 ELSE 1 + TopBit(m \div 2)

\* the bits of the double that holds the float's value (tmp.d = getFloat())
F32ToF64(s, b) ==
    LET e    == F32Exp(b)
        m    == F32Man(b)
        sign == <<0, 0, 0, F32Sign(b) * 32768>>
        p    == TopBit(m)
        de   == IF e = 0 THEN p + 874 ELSE e + 896
        dm   == IF e = 0 THEN Shl64(FromNat(m - 2 ^ p), 52 - p) ELSE Shl64(FromNat(m), 29)
    IN  IF IsNaN32(b) THEN FpArb(s)
        ELSE IF e = 0 /\ m = 0 THEN sign
        ELSE IF e = 255 THEN Or64(sign, <<0, 0, 0, 2047 * 16>>)
        ELSE Or64(sign, Or64(<<0, 0, 0, de * 16>>, dm))

\* |v| truncated towards zero, for a finite float with |v| < 2^64
F32Mag(b) ==
    LET e == F32Exp(b)
        m == 8388608 + F32Man(b)
    IN  IF e < 127 THEN Z64
        ELSE IF e >= 150 THEN Shl64(FromNat(m), e - 150)
        ELSE FromNat(m \div (2 ^ (150 - e)))

\* the float converted to a signed integer of w bits (w = 32 or 64), sign
\* extended to 64 bits; undefined when the truncated value does not fit
FloatToS(s, b, w) ==
    LET mag   == F32Mag(b)
        limit == Shl64(FromNat(1), w - 1)
        neg   == F32Sign(b) = 1
    IN  IF F32Exp(b) = 255 \/ F32Exp(b) > 190 THEN Arb64(s)
        ELSE IF LtU(mag, limit) THEN (IF neg THEN Sub64(Z64, mag) ELSE mag)
        ELSE IF neg /\ mag = limit THEN Sub64(Z64, mag)
        ELSE Arb64(s)

\* the float converted to uint32_t; undefined when the truncated value does
\* not fit
FloatToU32(s, b) ==
    LET mag == F32Mag(b)
    IN  IF F32Exp(b) = 255 \/ F32Exp(b) > 190 THEN Arb64(s)
        ELSE IF mag = Z64 THEN Z64
        ELSE IF F32Sign(b) = 1 \/ mag[3] # 0 \/ mag[4] # 0 THEN Arb64(s)
        ELSE mag

-----------------------------------------------------------------------------
(* The 32-bit instructions: one operator per class of arch_decode.cpp *)

Four == FromNat(4)

Auipc(i, s) == IncPc(SetReg(s, i.rd, Add64(s.pc, FromInt(i.imm))), Four)

Jal(i, s) == IncPc(SetReg(s, i.rd, Add64(s.pc, Four)), FromInt(i.imm))

\* rd is written before r1 is read
Jalr(i, s) ==
    LET linked == SetReg(s, i.rd, Add64(s.pc, Four))
    IN  SetPc(linked, ClearBit0(Add64(GetReg(linked, i.r1), FromInt(i.imm))))

OpImm(i, s) ==
    LET val  == GetReg(s, i.r1)
        imm  == FromInt(i.imm)
        sft  == i.imm % 64
        res  == CASE i.op = 0 -> Add64(val, imm)
                  [] i.op = 1 -> IF i.imm \in 0..63 THEN Shl64(val, i.imm)
                                 ELSE UbValue(s, Shl64(val, sft))
                  [] i.op = 2 -> IF LtS(val, imm) THEN FromNat(1) ELSE Z64
                  [] i.op = 3 -> IF LtU(val, imm) THEN FromNat(1) ELSE Z64
                  [] i.op = 4 -> Xor64(val, imm)
                  [] i.op = 5 -> IF Bit(i.imm, 10) = 1 THEN Sra64(val, sft)
                                 ELSE Shr64(val, sft)
                  [] i.op = 6 -> Or64(val, imm)
                  [] i.op = 7 -> And64(val, imm)
    IN  IncPc(SetReg(s, i.rd, res), Four)

Lui(i, s) == IncPc(SetReg(s, i.rd, FromInt(i.imm)), Four)

\* a branch that is always taken
BranchAlways(i, s) == SetPc(s, Add64(s.pc, FromInt(i.imm)))

Branch(i, s) ==
    LET r1 == GetReg(s, i.r1)
        r2 == GetReg(s, i.r2)
        taken == CASE i.op = 0 -> r1 = r2
                   [] i.op = 1 -> r1 # r2
                   [] i.op = 4 -> LtS(r1, r2)
                   [] i.op = 5 -> ~LtS(r1, r2)
                   [] i.op = 6 -> LtU(r1, r2)
                   [] i.op = 7 -> ~LtU(r1, r2)
                   [] OTHER -> FALSE
    IN  IF taken THEN SetPc(s, Add64(s.pc, FromInt(i.imm)))
        ELSE SetPc(s, Add64(s.pc, Four))

\* the size handed to writeMem is 1 << sz_, with sz_ any of opc[14:12]
Store(i, s) ==
    IncPc(WriteMem(s, Add64(GetReg(s, i.r1), FromInt(i.imm)), 2 ^ i.sz, GetReg(s, i.r2)),
          Four)

Load(i, s) ==
    LET sz   == 2 ^ (i.op % 4)
        mval == ReadMem(s, Add64(GetReg(s, i.r1), FromInt(i.imm)), sz)
        val  == CASE i.op > 3 -> mval
                  [] i.op = 0 -> Sext8(mval)
                  [] i.op = 1 -> Sext16(mval)
                  [] i.op = 2 -> Sext32(mval)
                  [] i.op = 3 -> mval
    IN  IncPc(SetReg(s, i.rd, val), Four)

\* the sign of a 64-bit value, extended to 64 bits: int64_t >> 64 of the
\* __int128 the value was widened to
SignFill(a) == IF IsNeg(a) THEN Ones64 ELSE Z64

MinS64 == <<0, 0, 0, 32768>>

ImulDiv(i, s) ==
    LET vr1  == GetReg(s, i.r1)
        vr2  == GetReg(s, i.r2)
        low  == Mul64(vr1, vr2)
        done(val) == IncPc(SetReg(s, i.rd, val), Four)
        ovf  == vr1 = MinS64 /\ vr2 = Ones64
    IN  CASE i.op = 0 -> done(low)
          [] i.op = 1 -> IF MulHighS(vr1, vr2) = SignFill(low) THEN done(SignFill(low))
                         ELSE done(UbValue(s, SignFill(low)))
          [] i.op = 2 -> done(Z64)
          [] i.op = 3 -> done(Z64)
          [] i.op = 4 -> IF vr2 = Z64 \/ ovf THEN Trap(s, done(Arb64(s)))
                         ELSE done(DivS64(vr1, vr2))
          [] i.op = 5 -> IF vr2 = Z64 THEN Trap(s, done(Arb64(s)))
                         ELSE done(DivU64(vr1, vr2))
          [] i.op = 6 -> IF vr2 = Z64 \/ ovf THEN Trap(s, done(Arb64(s)))
                         ELSE done(RemS64(vr1, vr2))
          [] i.op = 7 -> IF vr2 = Z64 THEN Trap(s, done(Arb64(s)))
                         ELSE done(RemU64(vr1, vr2))

AddIw(i, s) ==
    IncPc(SetReg(s, i.rd, Sext32(Add64(GetReg(s, i.r1), FromInt(i.imm)))), Four)

OpRegReg(i, s) ==
    LET vr1 == GetReg(s, i.r1)
        vr2 == GetReg(s, i.r2)
        lt63 == LtU(vr2, FromNat(63))
        vd  == CASE i.op = 0 -> IF i.op30 THEN Sub64(vr1, vr2) ELSE Add64(vr1, vr2)
                 [] i.op = 1 -> IF lt63 THEN Shl64(vr1, vr2[1]) ELSE Z64
                 [] i.op = 2 -> IF LtS(vr1, vr2) THEN FromNat(1) ELSE Z64
                 [] i.op = 3 -> IF LtU(vr1, vr2) THEN FromNat(1) ELSE Z64
                 [] i.op = 4 -> Xor64(vr1, vr2)
                 [] i.op = 5 -> IF i.op30
                                THEN (IF lt63 THEN Sra64(vr1, vr2[1]) ELSE SignFill(vr1))
                                ELSE (IF lt63 THEN Shr64(vr1, vr2[1]) ELSE Z64)
                 [] i.op = 6 -> Or64(vr1, vr2)
                 [] i.op = 7 -> And64(vr1, vr2)
    IN  IncPc(SetReg(s, i.rd, vd), Four)

\* imm_ is the low 8 bits of opc[31:20]; a 64-bit shift by 64 or more is
\* undefined
Slliw(i, s) ==
    LET val == GetReg(s, i.r1)
        vrd == IF i.imm < 64 THEN Shl64(val, i.imm) ELSE UbValue(s, Shl64(val, i.imm % 64))
    IN  IncPc(SetReg(s, i.rd, Sext32(vrd)), Four)

Sraliw(i, s) ==
    LET val == GetReg(s, i.r1)
        tmp == IF i.arith THEN Sra64(val, i.imm) ELSE Shr64(val, i.imm)
    IN  IncPc(SetReg(s, i.rd, Sext32(tmp)), Four)

Sllw(i, s) ==
    LET amt == GetReg(s, i.r2)[1] % 64
        vrd == IF amt < 31 THEN Shl64(GetReg(s, i.r1), amt) ELSE Z64
    IN  IncPc(SetReg(s, i.rd, Sext32(vrd)), Four)

AddSubW(i, s) ==
    LET v2  == GetReg(s, i.r2)
        v1  == GetReg(s, i.r1)
        tmp == IF i.sub THEN Sub64(v1, v2) ELSE Add64(v1, v2)
    IN  IncPc(SetReg(s, i.rd, Sext32(tmp)), Four)

MinS32 == <<0, 32768, 65535, 65535>>

MulDivW(i, s) ==
    LET u2   == Zext32(GetReg(s, i.r2))
        u1   == Zext32(GetReg(s, i.r1))
        s2   == Sext32(u2)
        s1   == Sext32(u1)
        prod == Mul64(s1, s2)
        ovf  == s1 = MinS32 /\ s2 = Ones64
        done(val) == IncPc(SetReg(s, i.rd, Sext32(val)), Four)
    IN  CASE i.op = 0 -> IF prod = Sext32(prod) THEN done(prod)
                         ELSE done(UbValue(s, prod))
          [] i.op = 4 -> IF u2 = Z64 THEN done(Z64)
                         ELSE IF ovf THEN Trap(s, done(Arb64(s)))
                         ELSE done(DivS64(s1, s2))
          [] i.op = 5 -> IF u2 = Z64 THEN done(Z64) ELSE done(DivU64(u1, u2))
          [] i.op = 6 -> IF u2 = Z64 THEN done(Z64)
                         ELSE IF ovf THEN Trap(s, done(Arb64(s)))
                         ELSE done(RemS64(s1, s2))
          [] i.op = 7 -> IF u2 = Z64 THEN done(Z64) ELSE done(RemU64(u1, u2))
          [] OTHER -> done(Z64)

\* a store-conditional that finds no reservation: nothing stored, rd = 1
StoreCondFails(i, s) ==
    IF i.is_store THEN IncPc(SetReg(s, i.rd, FromNat(1)), Four)
    ELSE IncPc(SetReg(s, i.rd, ReadMem(s, GetReg(s, i.ar), IF i.dword THEN 8 ELSE 4)), Four)

LoadReserveStoreCond(i, s) ==
    LET sz   == IF i.dword THEN 8 ELSE 4
        addr == GetReg(s, i.ar)
    IN  IF i.is_store
        THEN IncPc(SetReg(WriteMem(s, addr, sz, GetReg(s, i.r2)), i.rd, Z64), Four)
        ELSE IncPc(SetReg(s, i.rd, ReadMem(s, addr, sz)), Four)

AmoOp(i, s) ==
    LET ea  == GetReg(s, i.r1)
        vr2 == GetReg(s, i.r2)
        sz  == IF i.dword THEN 8 ELSE 4
        init_val == IF i.o31_27 = 1 /\ i.rd = 0 THEN Z64 ELSE ReadMem(s, ea, sz)
        val == CASE i.o31_27 = 0 -> Add64(init_val, vr2)
                 [] i.o31_27 = 1 -> vr2
                 [] i.o31_27 = 4 -> Xor64(init_val, vr2)
                 [] i.o31_27 = 8 -> Or64(init_val, vr2)
                 [] i.o31_27 = 12 -> And64(init_val, vr2)
                 [] i.o31_27 = 16 -> IF LtS(vr2, init_val) THEN vr2 ELSE init_val
                 [] i.o31_27 = 20 -> IF LtS(init_val, vr2) THEN vr2 ELSE init_val
                 [] i.o31_27 = 24 -> IF LtU(vr2, init_val) THEN vr2 ELSE init_val
                 [] i.o31_27 = 28 -> IF LtU(init_val, vr2) THEN vr2 ELSE init_val
                 [] OTHER -> Z64
    IN  IncPc(WriteMem(SetReg(s, i.rd, init_val), ea, sz, val), Four)

\* the store data is the register's float converted to double and then to
\* the uint64_t parameter of writeMem
StoreFp(i, s) ==
    IncPc(WriteMem(s, Add64(GetReg(s, i.rbase), FromInt(i.imm)), i.sz,
                   FloatToU64(s, GetFpRaw(s, i.rsrc))),
          Four)

Fmove(i, s) ==
    LET raw == GetFpRaw(s, i.r1)
    IN  IF i.to_float
        THEN IF i.dword
             THEN IncPc(SetFloat(s, i.rd, FpArb(s)), Four)
             ELSE IncPc(SetFloat(s, i.rd, FloatViaDouble(s, GetReg(s, i.r1))), Four)
        ELSE IF i.dword
             THEN IncPc(SetReg(s, i.rd, F32ToF64(s, raw)), Four)
             ELSE IncPc(SetReg(s, i.rd, Sext32(raw)), Four)

\* a load of 8 bytes is a double handed to setFloat(float); every other
\* size reads 4 bytes
LoadFp(i, s) ==
    LET sz == 2 ^ (i.op % 4)
        ea == Add64(GetReg(s, i.r1), FromInt(i.imm))
    IN  IF sz = 8
        THEN IncPc(SetFloat(s, i.rd, FpArb(s)), Four)
        ELSE IncPc(SetFloat(s, i.rd, FloatViaDouble(s, ReadMem(s, ea, 4))), Four)

FcvtInt(i, s) ==
    LET raw == GetFpRaw(s, i.r1)
        val == CASE i.int_sz = 0 -> FloatToS(s, raw, 32)
                 [] i.int_sz = 1 -> Sext32(FloatToU32(s, raw))
                 [] i.int_sz = 2 -> FloatToS(s, raw, 64)
                 [] i.int_sz = 3 -> FloatToU64(s, raw)
                 [] OTHER -> Z64
    IN  IF i.to_float
        THEN IncPc(SetFloat(s, i.rd, IF i.int_sz < 4 THEN FpArb(s) ELSE Z64), Four)
        ELSE IncPc(SetReg(s, i.rd, val), Four)

Fsign(i, s) ==
    LET v1 == GetFpRaw(s, i.r1)
        v1_neg == F32Less0(v1)
        v2_neg == F32Less0(GetFpRaw(s, i.r2))
        invert == CASE i.op = 0 -> v1_neg # v2_neg
                    [] i.op = 1 -> v1_neg = v2_neg
                    [] i.op = 2 -> v2_neg
                    [] OTHER -> FALSE
        val == IF invert THEN F32Neg(v1) ELSE v1
    IN  IncPc(SetFloat(s, i.rd, FloatViaDouble(s, val)), Four)

Fmadd(i, s) == IncPc(SetFloat(s, i.rd, FpArb(s)), Four)

-----------------------------------------------------------------------------
(* HostSystem: the system calls ECALL dispatches to.  s.host is the record
     exited       exited_
     prog_name    prog_name_
     top_of_mem   top_of_mem_
     fds          fds_: the host descriptor behind each guest descriptor
     opened       the host files opened so far: path and whether for writing
     out          the bytes handed to the host's write(), with their descriptor
     cout         the bytes writeBuf has printed
   s.hostfail says whether the host's open, fstat and write calls fail.   *)

\* (uint32_t)-1, what fds_ holds after a failed host open
BadFd == <<65535, 65535>>

DevTty == <<47, 100, 101, 118, 47, 116, 116, 121>>
ProcSelfExe == <<47, 112, 114, 111, 99, 47, 115, 101, 108, 102, 47, 101, 120, 101>>
Sysname == <<76, 105, 110, 117, 120>>
Release == <<52, 46, 49, 53, 46, 48>>

\* what the host's fstat reports for an open file
HostStMode == FromNat(33188)
HostBlkSize == FromNat(4096)

\* the NUL-terminated string at va, without the characters outside 32..127
RECURSIVE CStr(_, _, _)
CStr(s, va, acc) ==
    LET c == ReadMem(s, va, 1)[1] % 256
    IN  IF c = 0 THEN acc
        ELSE CStr(s, Add64(va, FromNat(1)),
                  IF c < 32 \/ c > 127 THEN acc ELSE Append(acc, c))

\* writeMem(va + k - 1, 1, bs[k]) for k = from .. Len(bs), in this order
RECURSIVE PutBytes(_, _, _, _)
PutBytes(s, va, bs, from) ==
    IF from > Len(bs) \/ s.crashed THEN s
    ELSE PutBytes(WriteMem(s, Add64(va, FromNat(from - 1)), 1, FromNat(bs[from])),
                  va, bs, from + 1)

\* the n bytes at buf, buf + 1, ...
GetBytes(s, buf, n) == [k \in 1..n |-> ReadMem(s, Add64(buf, FromNat(k - 1)), 1)[1] % 256]

\* SparseMem::addBlock as HostSystem calls it
AddBlock(s, va, sz, data) ==
    [s EXCEPT !.blocks = addBlock(@, va, sz, data),
              !.crashed = @ \/ (s.trap /\ GrowOverrun(s.blocks, va, sz, data) # Z64)]

\* an exit that leaves the flag alone
exitIgnored(s) == s

exit(s) == [s EXCEPT !.host.exited = TRUE]

open(s) ==
    LET path     == GetReg(s, 11)
        flags    == GetReg(s, 12)
        pathname == CStr(s, path, <<>>)
        live     == {j \in 1..Len(s.host.fds) : s.host.fds[j] # BadFd}
        new_fd   == IF s.hostfail THEN BadFd ELSE <<4 + Cardinality(live), 0>>
        sim_fd   == Len(s.host.fds)
    IN  IF path = Z64 THEN SetReg(s, 10, Ones64)
        ELSE IF pathname = DevTty THEN SetReg(s, 10, FromNat(1))
        ELSE SetReg([s EXCEPT !.host.fds = Append(@, new_fd),
                              !.host.opened = Append(@, [path |-> pathname,
                                                         write |-> flags # Z64])],
                    10, FromNat(sim_fd))

fstat(s) ==
    LET fd       == GetReg(s, 10)
        path_p   == GetReg(s, 11)
        buf      == GetReg(s, 12)
        pathname == CStr(s, path_p, <<>>)
        stat(mode, blksize) ==
            WriteMem(WriteMem(s, Add64(buf, FromNat(16)), 4, mode),
                     Add64(buf, FromNat(56)), 8, blksize)
    IN  IF fd = FromNat(1) THEN SetReg(stat(FromNat(8592), FromNat(8192)), 10, Z64)
        ELSE IF path_p = Z64 THEN SetReg(s, 10, Ones64)
        ELSE IF pathname = <<>>
             THEN IF ~LtU(fd, FromNat(Len(s.host.fds))) THEN SetReg(s, 10, Ones64)
                  ELSE IF s.host.fds[fd[1] + 1] = BadFd \/ s.hostfail
                       THEN SetReg(s, 10, Ones64)
                       ELSE SetReg(stat(HostStMode, HostBlkSize), 10, Z64)
        ELSE SetReg(s, 10, Z64)

readlinkat(s) ==
    LET path     == GetReg(s, 11)
        buf      == GetReg(s, 12)
        buf_sz   == GetReg(s, 13)
        pathname == CStr(s, path, <<>>)
        off      == IF LtU(buf_sz, FromNat(Len(pathname))) THEN buf_sz[1]
                    ELSE Len(pathname)
    IN  IF path = Z64 \/ buf = Z64 \/ buf_sz = Z64 THEN SetReg(s, 10, Ones64)
        ELSE IF pathname # ProcSelfExe THEN SetReg(s, 10, Z64)
        ELSE SetReg(PutBytes(s, buf, SubSeq(pathname, 1, off), 1), 10, FromNat(off))

\* the uint64_t delta is narrowed to addBlock's uint32_t sz
sbrk(s) ==
    LET new_top_of_mem == GetReg(s, 15)
        top   == s.host.top_of_mem
        delta == Sub64(new_top_of_mem, top)
        grown == AddBlock(s, Add64(top, FromNat(1)), Zext32(delta), NoData)
    IN  IF new_top_of_mem = Z64 \/ LeU(new_top_of_mem, top) THEN SetReg(s, 10, top)
        ELSE SetReg([grown EXCEPT !.host.top_of_mem = new_top_of_mem],
                    10, new_top_of_mem)

UtsLen == 65
NumFields == 6

uname(s) ==
    LET buf    == GetReg(s, 10)
        zeroed == PutBytes(s, buf, [k \in 1..(UtsLen * NumFields) |-> 0], 1)
        named  == PutBytes(zeroed, buf, Sysname, 1)
        rel    == PutBytes(named, Add64(buf, FromNat(2 * UtsLen)), Release, 1)
    IN  IF buf = Z64 THEN SetReg(s, 10, Ones64) ELSE SetReg(rel, 10, Z64)

\* the loop counter is a uint32_t compared with the uint64_t ct: with ct of
\* 2^32 or more the loop ends only when the host refuses a byte
write(s) ==
    LET fd     == GetReg(s, 10)
        buf    == GetReg(s, 11)
        ct     == GetReg(s, 12)
        sim_fd == s.host.fds[fd[1] + 1]
        bytes  == GetBytes(s, buf, ToNat(ct))
        sent   == [k \in 1..ToNat(ct) |-> <<sim_fd, bytes[k]>>]
    IN  IF ~LtU(fd, FromNat(Len(s.host.fds))) THEN SetReg(s, 10, Ones64)
        ELSE IF ct = Z64 THEN SetReg(s, 10, ct)
        ELSE IF sim_fd = BadFd \/ s.hostfail \/ ~s.host.opened[fd[1] + 1].write
             THEN SetReg(s, 10, Ones64)
        ELSE IF ct[3] # 0 \/ ct[4] # 0 THEN [s EXCEPT !.hung = TRUE]
        ELSE SetReg([s EXCEPT !.host.out = @ \o sent], 10, ct)

\* the iovct entries at iovec: acc is <<bytes_written, the bytes printed>>
RECURSIVE WritevLoop(_, _, _, _)
WritevLoop(s, iovec, iovct, acc) ==
    IF iovct = 0 \/ Len(acc) # 2 THEN acc
    ELSE LET buf == ReadMem(s, iovec, 8)
             ct  == ReadMem(s, Add64(iovec, FromNat(8)), 8)
         IN  WritevLoop(s, Add64(iovec, FromNat(16)), iovct - 1,
                        <<Add64(acc[1], ct), acc[2] \o GetBytes(s, buf, ToNat(ct))>>)

writev(s) ==
    LET iovec == GetReg(s, 11)
        fd    == GetReg(s, 10)
        iovct == GetReg(s, 12)
        done  == WritevLoop(s, iovec, ToNat(iovct), <<Z64, <<>>>>)
    IN  IF iovec = Z64 THEN SetReg(s, 10, Ones64)
        ELSE IF fd = FromNat(1)
             THEN SetReg([s EXCEPT !.host.cout = @ \o done[2]], 10, done[1])
        ELSE SetReg(s, 10, Z64)

\* the syscall number as the switch sees it: every number of 2^16 or more
\* takes the default arm
SyscallNum(syscall) ==
    IF syscall[2] = 0 /\ syscall[3] = 0 /\ syscall[4] = 0 THEN syscall[1] ELSE L16

\* the switch of Ecall::execute
EcallSwitch(s, n) ==
    CASE n = 56 -> open(s)
      [] n = 57 -> SetReg(s, 10, Z64)
      [] n = 64 -> write(s)
      [] n = 66 -> writev(s)
      [] n = 78 -> readlinkat(s)
      [] n = 80 -> fstat(s)
      [] n \in {93, 94} -> exit(s)
      [] n = 160 -> uname(s)
      [] n \in 174..177 -> SetReg(s, 10, FromNat(3))
      [] n = 214 -> sbrk(s)
      [] OTHER -> SetReg(s, 10, Z64)

\* a system call that does not return never reaches incPc
EcallEnd(ret) == IF ret.hung THEN ret ELSE IncPc(ret, Four)

Ecall(i, s) == EcallEnd(EcallSwitch(s, SyscallNum(GetReg(s, 17))))

-----------------------------------------------------------------------------
(* decode32.  The opcode word is given as its two halfwords, lo = opc[15:0]
   and hi = opc[31:16], as the fetch loop reads them. *)

\* opc[31:20] sign-extended from bit 11
Imm12(hi) == Bits(hi, 4, 12) - 4096 * Bit(hi, 15)

\* opc & 0xfffff000 as an int32_t
Imm20(lo, hi) == (hi - L16 * Bit(hi, 15)) * L16 + Bits(lo, 12, 4) * 4096

\* opc[31:25] and opc[11:7] as the sign-extended store offset
SImm(lo, hi) == Bits(lo, 7, 5) + Bits(hi, 9, 7) * 32 - 4096 * Bit(hi, 15)

decode32(lo, hi) ==
    LET group == Bits(lo, 2, 5) * 4
        rd    == Bits(lo, 7, 5)
        r1    == Bit(lo, 15) + 2 * Bits(hi, 0, 4)
        r2    == Bits(hi, 4, 5)
        op    == Bits(lo, 12, 3)
        o25   == Bit(hi, 9) = 1
        op30  == Bit(hi, 14) = 1
        op2   == Bits(hi, 9, 7)
    IN  CASE group = 0 -> [cls |-> "Load", op |-> op, imm |-> Imm12(hi), r1 |-> r1, rd |-> rd]
          [] group = 4 ->
               [cls |-> "LoadFp", op |-> op, imm |-> Imm12(hi), r1 |-> r1, rd |-> rd]
          [] group = 16 ->
               [cls |-> "OpImm", op |-> op, imm |-> Imm12(hi), r1 |-> r1, rd |-> rd]
          [] group = 20 -> [cls |-> "Auipc", imm |-> Imm20(lo, hi), rd |-> rd]
          [] group = 24 ->
               IF op = 0 THEN [cls |-> "AddIw", imm |-> Imm12(hi), r1 |-> r1, rd |-> rd]
               ELSE IF op = 1
               THEN [cls |-> "Slliw", imm |-> Bits(hi, 4, 8), r1 |-> r1, rd |-> rd]
               ELSE IF op = 5
               THEN [cls |-> "Sraliw", imm |-> Bits(hi, 4, 5), r1 |-> r1, rd |-> rd,
                     arith |-> op30]
               ELSE NoInst
          [] group = 32 ->
               [cls |-> "Store", sz |-> op, imm |-> SImm(lo, hi), r1 |-> r1, r2 |-> r2]
          [] group = 36 ->
               [cls |-> "StoreFp", imm |-> SImm(lo, hi), rbase |-> r1, rsrc |-> r2,
                sz |-> IF op = 2 THEN 4 ELSE 8]
          [] group = 44 ->
               IF Bit(hi, 12) = 1
               THEN [cls |-> "LoadReserveStoreCond", is_store |-> Bit(hi, 11) = 1,
                     dword |-> op = 3, aq |-> Bit(hi, 10) = 1, rl |-> o25,
                     r2 |-> r2, ar |-> r1, rd |-> rd]
               ELSE [cls |-> "AmoOp", o31_27 |-> Bits(hi, 11, 5), dword |-> op = 3,
                     aq |-> Bit(hi, 10) = 1, rel |-> o25, r2 |-> r2, r1 |-> r1, rd |-> rd]
          [] group = 48 ->
               IF o25 THEN [cls |-> "ImulDiv", op |-> op, r2 |-> r2, r1 |-> r1, rd |-> rd]
               ELSE [cls |-> "OpRegReg", op |-> op, op30 |-> op30, r2 |-> r2, r1 |-> r1,
                     rd |-> rd]
          [] group = 52 -> [cls |-> "Lui", imm |-> Imm20(lo, hi), rd |-> rd]
          [] group = 56 ->
               IF o25 THEN [cls |-> "MulDivW", op |-> op, r2 |-> r2, r1 |-> r1, rd |-> rd]
               ELSE IF op = 0
                    THEN [cls |-> "AddSubW", r2 |-> r2, r1 |-> r1, rd |-> rd, sub |-> op30]
               ELSE IF op = 1 THEN [cls |-> "Sllw", r2 |-> r2, r1 |-> r1, rd |-> rd]
               ELSE NoInst
          [] group \in {64, 68, 72, 76} ->
               [cls |-> "Fmadd", dbl |-> o25, rm |-> op, op |-> Bits(lo, 2, 2),
                r3 |-> Bits(hi, 11, 5), r2 |-> r2, r1 |-> r1, rd |-> rd]
          [] group = 80 ->
               IF BitAnd(op2, 118) = 112
               THEN [cls |-> "Fmove", dword |-> Bit(op2, 0) = 1,
                     to_float |-> Bit(op2, 3) = 1, r1 |-> r1, rd |-> rd]
               ELSE IF BitAnd(op2, 118) = 96
               THEN [cls |-> "FcvtInt", dbl |-> Bit(op2, 0) = 1,
                     to_float |-> Bit(op2, 3) = 1, int_sz |-> r2, round |-> op,
                     r1 |-> r1, rd |-> rd]
               ELSE IF BitAnd(op2, 126) = 16
               THEN [cls |-> "Fsign", dbl |-> Bit(op2, 0) = 1, op |-> op, r2 |-> r2,
                     r1 |-> r1, rd |-> rd]
               ELSE NoInst
          [] group = 96 ->
               [cls |-> "Branch", op |-> op, r2 |-> r2, r1 |-> r1,
                imm |-> Bits(lo, 8, 4) * 2 + Bits(hi, 9, 6) * 32 + Bit(lo, 7) * 2048
                        - 4096 * Bit(hi, 15)]
          [] group = 100 -> [cls |-> "Jalr", imm |-> Imm12(hi), r1 |-> r1, rd |-> rd]
          [] group = 108 ->
               [cls |-> "Jal", rd |-> rd,
                imm |-> Bits(hi, 5, 10) * 2 + Bit(hi, 4) * 2048
                        + (Bits(lo, 12, 4) + 16 * Bits(hi, 0, 4)) * 4096
                        - 1048576 * Bit(hi, 15)]
          [] group = 112 -> IF op = 0 THEN [cls |-> "Ecall"] ELSE NoInst
          [] OTHER -> NoInst

-----------------------------------------------------------------------------
(* Inst::execute: the virtual call, by the class of the instruction *)

execute(i, s) ==
    CASE i.cls = "CompLI" -> CompLI(i, s)
      [] i.cls = "CompAlu" -> CompAlu(i, s)
      [] i.cls = "CompAluW" -> CompAluW(i, s)
      [] i.cls = "CompJr" -> CompJr(i, s)
      [] i.cls = "CompMv" -> CompMv(i, s)
      [] i.cls = "CompLdwSp" -> CompLdwSp(i, s)
      [] i.cls = "CompAddI4SpN" -> CompAddI4SpN(i, s)
      [] i.cls = "CompAddI16Sp" -> CompAddI16Sp(i, s)
      [] i.cls = "CompSdwSp" -> CompSdwSp(i, s)
      [] i.cls = "CompSllI" -> CompSllI(i, s)
      [] i.cls = "CompAdd" -> CompAdd(i, s)
      [] i.cls = "CompAddI" -> CompAddI(i, s)
      [] i.cls = "CompAddIw" -> CompAddIw(i, s)
      [] i.cls = "CompBz" -> CompBz(i, s)
      [] i.cls = "CompLd" -> CompLd(i, s)
      [] i.cls = "CompJ" -> CompJ(i, s)
      [] i.cls = "CompSdw" -> CompSdw(i, s)
      [] i.cls = "CompLui" -> CompLui(i, s)
      [] i.cls = "CompLw" -> CompLw(i, s)
      [] i.cls = "Candi" -> Candi(i, s)
      [] i.cls = "CompJalr" -> CompJalr(i, s)
      [] i.cls = "CompShiftRight" -> CompShiftRight(i, s)
      [] i.cls = "CompFsd" -> CompFsd(i, s)
      [] i.cls = "CompFpLd" -> CompFpLd(i, s)
      [] i.cls = "Auipc" -> Auipc(i, s)
      [] i.cls = "Jal" -> Jal(i, s)
      [] i.cls = "Jalr" -> Jalr(i, s)
      [] i.cls = "OpImm" -> OpImm(i, s)
      [] i.cls = "Lui" -> Lui(i, s)
      [] i.cls = "Branch" -> Branch(i, s)
      [] i.cls = "Store" -> Store(i, s)
      [] i.cls = "Load" -> Load(i, s)
      [] i.cls = "ImulDiv" -> ImulDiv(i, s)
      [] i.cls = "AddIw" -> AddIw(i, s)
      [] i.cls = "Ecall" -> Ecall(i, s)
      [] i.cls = "OpRegReg" -> OpRegReg(i, s)
      [] i.cls = "Slliw" -> Slliw(i, s)
      [] i.cls = "Sraliw" -> Sraliw(i, s)
      [] i.cls = "Sllw" -> Sllw(i, s)
      [] i.cls = "AddSubW" -> AddSubW(i, s)
      [] i.cls = "MulDivW" -> MulDivW(i, s)
      [] i.cls = "LoadReserveStoreCond" -> LoadReserveStoreCond(i, s)
      [] i.cls = "AmoOp" -> AmoOp(i, s)
      [] i.cls = "StoreFp" -> StoreFp(i, s)
      [] i.cls = "Fmove" -> Fmove(i, s)
      [] i.cls = "LoadFp" -> LoadFp(i, s)
      [] i.cls = "FcvtInt" -> FcvtInt(i, s)
      [] i.cls = "Fsign" -> Fsign(i, s)
      [] i.cls = "Fmadd" -> Fmadd(i, s)

-----------------------------------------------------------------------------
(* The state after construction: SimpleArchState's member initialisers and
   an empty SparseMem *)

NoCall == [op |-> "none"]

InitArch ==
    /\ pc = Z64
    /\ ireg = [r \in Regs |-> Z64]
    /\ freg = [r \in Regs |-> Z64]
    /\ cregs = [c \in {} |-> Z64]

\* HostSystem's member initialisers
InitHost ==
    [exited |-> FALSE, top_of_mem |-> Z64, fds |-> <<>>, opened |-> <<>>,
     out |-> <<>>, cout |-> <<>>, prog_name |-> <<>>]

\* main() before the loop is entered
NoRun == [icount |-> 0, max_icount |-> 0, state |-> "idle"]

\* a build whose undefined behaviour does not trap, on a host whose calls succeed
Benign == [trap |-> FALSE, hostfail |-> FALSE]

InitMem ==
    /\ InitArch
    /\ blocks = <<>>
    /\ host = InitHost
    /\ run = NoRun
    /\ junk \in JunkBytes
    /\ env = Benign
    /\ crashed = FALSE
    /\ hung = FALSE
    /\ steps = 0
    /\ last = NoCall

-----------------------------------------------------------------------------
(* Calls on the sparse memory, as ELF loading, the stack set-up, sbrk and
   the instructions make them *)

\* 0xfffffffffffffffc and 0xfffffffffffffffe: the top of the address space
TopVa(n) == FromInt(-n)

AddVas   == {FromNat(16), FromNat(18), TopVa(4)}
AddSizes == {FromNat(2), FromNat(3)}
AddData  == {NoData, <<161, 162, 163>>}
AccVas   == {FromNat(16), FromNat(17), FromNat(19), TopVa(2)}
AccSizes == {1, 2, 4, 8}
AccVals  == {Ones64}

\* what addBlock's stores past the reallocated buffer can do to the heap:
\* nothing visible, a byte of another block's buffer overwritten, or the
\* allocator's bookkeeping overwritten and the process killed
AddBlockCall(va, sz, data) ==
    LET over == GrowOverrun(blocks, va, sz, data)
        grown == addBlock(blocks, va, sz, data)
        g == GrowIdx(blocks, va)
    IN  /\ ~crashed
        /\ steps < MaxMemOps
        /\ steps' = steps + 1
        /\ last' = [op |-> "addBlock", va |-> va, sz |-> sz, data |-> data,
                    grew |-> g, over |-> over]
        /\ IF over = Z64
           THEN blocks' = grown /\ crashed' = FALSE
           ELSE \/ blocks' = grown /\ crashed' \in BOOLEAN
                \/ /\ crashed' = FALSE
                   /\ \E j \in (1..Len(grown)) \ {g} :
                        /\ grown[j].sz # Z64
                        /\ blocks' = [grown EXCEPT ![j].mem =
                              StoreBytes(grown[j].mem, grown[j].sz, Z64, <<junk>>)]
        /\ UNCHANGED notMem

ReadMemCall(va, sz) ==
    /\ ~crashed
    /\ steps < MaxMemOps
    /\ steps' = steps + 1
    /\ last' = [op |-> "readMem", va |-> va, sz |-> sz,
                ret |-> readMem(blocks, va, sz, junk),
                over |-> AccessOverrun(blocks, va, sz)]
    /\ UNCHANGED <<notMem, blocks, crashed>>

WriteMemCall(va, sz, val) ==
    /\ ~crashed
    /\ steps < MaxMemOps
    /\ steps' = steps + 1
    /\ blocks' = writeMem(blocks, va, sz, val, junk)
    /\ last' = [op |-> "writeMem", va |-> va, sz |-> sz, val |-> val,
                over |-> AccessOverrun(blocks, va, sz)]
    /\ crashed' \in (IF AccessOverrun(blocks, va, sz) = 0 THEN {FALSE} ELSE BOOLEAN)
    /\ UNCHANGED notMem

NextMem ==
    \/ \E va \in AddVas, sz \in AddSizes, data \in AddData : AddBlockCall(va, sz, data)
    \/ \E va \in AccVas, sz \in AccSizes : ReadMemCall(va, sz)
    \/ \E va \in AccVas, sz \in AccSizes, val \in AccVals : WriteMemCall(va, sz, val)

SpecMem == InitMem /\ [][NextMem]_vars

-----------------------------------------------------------------------------
(* Properties of the sparse memory, checked under SpecMem *)

\* block b holds the byte at guest address a
Covers(b, a) == LtU(Sub64(a, b.va), b.sz)

\* some guest address is held by both blocks
Overlap(b1, b2) ==
    /\ b1.sz # Z64
    /\ b2.sz # Z64
    /\ (Covers(b1, b2.va) \/ Covers(b2, b1.va))

\* every byte of [va, va + sz) is held by one and the same block
Contained(blks, va, sz) ==
    \E i \in 1..Len(blks) :
        \A k \in 0..(sz - 1) : Covers(blks[i], Add64(va, FromNat(k)))

\* C2: right after add_block(va, n, data) has returned, every 1-byte read
\* at va + k, k in [0, n), returns data[k], or 0 when data is absent,
\* whether the call made a new block or grew a predecessor ending at va.
C2_AddBlockReadsBack ==
    (last.op = "addBlock" /\ ~crashed) =>
        \A k \in 0..(ToNat(last.sz) - 1) :
            readMem(blocks, Add64(last.va, FromNat(k)), 1, junk)
                = FromNat(IF last.data = NoData THEN 0 ELSE last.data[k + 1])

\* C3: no guest address is covered by two different blocks.
C3_NoTwoBlocksOverlap ==
    \A i, j \in 1..Len(blocks) : i # j => ~Overlap(blocks[i], blocks[j])

\* C4: an access of size 1, 2, 4 or 8 that is not fully contained in a
\* single block is non-fatal, a read returns 0, and a write leaves every
\* byte of every block unchanged.
C4_UncontainedAccessIsInert ==
    [][(/\ last'.op \in {"readMem", "writeMem"}
        /\ ~Contained(blocks, last'.va, last'.sz))
       => (/\ ~crashed'
           /\ blocks' = blocks
           /\ (last'.op = "readMem" => last'.ret = Z64))]_vars

-----------------------------------------------------------------------------
(* The machine the instructions execute on, as the model's variables *)

Machine ==
    [pc |-> pc, ireg |-> ireg, freg |-> freg, cregs |-> cregs, blocks |-> blocks,
     host |-> host, crashed |-> crashed, hung |-> hung, junk |-> junk,
     trap |-> env.trap, hostfail |-> env.hostfail]

Install(s) ==
    /\ pc' = s.pc
    /\ ireg' = s.ireg
    /\ freg' = s.freg
    /\ cregs' = s.cregs
    /\ blocks' = s.blocks
    /\ host' = s.host
    /\ crashed' = s.crashed
    /\ hung' = s.hung

\* what a build's undefined behaviour and the host's file calls can do
Envs == [trap : BOOLEAN, hostfail : BOOLEAN]

\* a 16-byte data block at 0x100
DataVa == FromNat(256)
DataBytes == <<17, 34, 51, 68, 85, 102, 119, 136, 0, 0, 0, 0, 0, 0, 0, 128>>

InitData ==
    /\ InitArch
    /\ blocks = addBlock(<<>>, DataVa, FromNat(Len(DataBytes)), DataBytes)
    /\ host = InitHost
    /\ run = NoRun
    /\ junk \in JunkBytes
    /\ crashed = FALSE
    /\ hung = FALSE
    /\ steps = 0
    /\ last = NoCall

-----------------------------------------------------------------------------
(* Calls on SimpleArchState: registers, CSRs, and a register stored to
   memory *)

SetRegNums == {0, 9}
SetRegVals == {Ones64, DataVa}

SetRegCall(num, val, max) ==
    /\ ~crashed
    /\ ~hung
    /\ steps < max
    /\ steps' = steps + 1
    /\ ireg' = setReg(ireg, num, val)
    /\ last' = [op |-> "setReg", num |-> num, val |-> val]
    /\ UNCHANGED <<pc, freg, cregs, blocks, host, run, junk, env, crashed, hung>>

\* writeMem(va, 8, getReg(num)); the record says whether the call follows a
\* setReg of the same register, and the value that setReg was given
WriteRegCall(va, num, max) ==
    /\ ~crashed
    /\ steps < max
    /\ steps' = steps + 1
    /\ blocks' = writeMem(blocks, va, 8, getReg(ireg, num), junk)
    /\ last' = [op |-> "writeReg", va |-> va, num |-> num,
                after |-> (last.op = "setReg" /\ last.num = num),
                v |-> IF last.op = "setReg" THEN last.val ELSE Z64]
    /\ UNCHANGED <<notMem, crashed>>

\* the CSR numbers written: fflags, frm, fcsr, and a number that parentCsr's
\* uint16_t parameter truncates to fflags; 0xc00 is read and never written
ReadCsrs == {FFLAGS, FRM, FCSR, L16 + FFLAGS, 3072}
CsrNums == {FFLAGS, FRM, FCSR, L16 + FFLAGS}
CsrVals == {Ones64, FromNat(165)}

\* setCr(csr, val); the record keeps what getCr gave before the call
SetCrCall(csr, val, max) ==
    /\ ~crashed
    /\ steps < max
    /\ steps' = steps + 1
    /\ cregs' = setCr(cregs, csr, val)
    /\ last' = [op |-> "setCr", csr |-> csr, val |-> val,
                frm |-> getCr(cregs, FRM), fflags |-> getCr(cregs, FFLAGS),
                found |-> FCSR \in DOMAIN cregs]
    /\ UNCHANGED <<pc, ireg, freg, blocks, host, run, junk, env, crashed, hung>>

MaxArchOps == 3

\* 0x103, with its 8 bytes inside the block, and 0x109, with the last outside
WriteVas == {FromNat(259), FromNat(265)}

InitArchCalls == InitData /\ env = Benign

NextArch ==
    \/ \E num \in {0, 31}, val \in {Ones64, MinS64} : SetRegCall(num, val, MaxArchOps)
    \/ \E va \in WriteVas, num \in {0, 31} : WriteRegCall(va, num, MaxArchOps)
    \/ \E csr \in CsrNums, val \in CsrVals : SetCrCall(csr, val, MaxArchOps)

SpecArch == InitArchCalls /\ [][NextArch]_vars

-----------------------------------------------------------------------------
(* decode16 / decode32 and Inst::execute on opcode words *)

MaxExecOps == 2

\* opcode words as <<opc[15:0], opc[31:16]>>
ExecWords ==
    {
     <<19, 80>>,   \* addi x0, x0, 5
     <<32819, 148>>,   \* add x0, x9, x9
     <<49843, 628>>,   \* div x5, x9, x7
     <<62131, 628>>,   \* remu x5, x9, x7
     <<49851, 628>>,   \* divw x5, x9, x7
     <<1123, 0>>,   \* beq x0, x0, +8
     <<5219, 0>>,   \* bne x0, x0, +8
     <<111, 256>>,   \* jal x0, +16
     <<32871, 4>>,   \* jalr x0, 0(x9)
     <<34023, 4>>,   \* jalr x9, 0(x9)
     <<45059, 4>>,   \* ld x0, 0(x9)
     <<45699, 132>>,   \* ld x5, 8(x9)
     <<45091, 148>>,   \* sd x9, 0(x9)
     <<115, 0>>,   \* ecall
     <<32898, 0>>,   \* c.jr x1
     <<38018, 0>>,   \* c.jalr x9
     <<36994, 0>>,   \* c.jalr x1
     <<16397, 0>>,   \* c.li x0, 3
     <<49153, 0>>,   \* c.beqz x8, +0
     <<57353, 0>>,   \* c.bnez x8, +2
     <<40969, 0>>,   \* c.j +2
     <<33446, 0>>,   \* c.mv x5, x9
     <<38054, 0>>,   \* c.add x9, x9
     <<539, 29385>>,   \* AddIw
     <<699, 333>>,   \* AddSubW
     <<431, 17733>>,   \* AmoOp
     <<151, 48334>>,   \* Auipc
     <<39405, 0>>,   \* Candi
     <<301, 0>>,   \* CompAddI
     <<24849, 0>>,   \* CompAddI16Sp
     <<624, 0>>,   \* CompAddI4SpN
     <<8337, 0>>,   \* CompAddIw
     <<36653, 0>>,   \* CompAlu
     <<40341, 0>>,   \* CompAluW
     <<8820, 0>>,   \* CompFpLd
     <<41008, 0>>,   \* CompFsd
     <<25056, 0>>,   \* CompLd
     <<16422, 0>>,   \* CompLdwSp
     <<25149, 0>>,   \* CompLui
     <<16856, 0>>,   \* CompLw
     <<51020, 0>>,   \* CompSdw
     <<49674, 0>>,   \* CompSdwSp
     <<33349, 0>>,   \* CompShiftRight
     <<30, 0>>,   \* CompSllI
     <<1363, 49629>>,   \* FcvtInt
     <<71, 60216>>,   \* Fmadd
     <<4179, 57354>>,   \* Fmove
     <<6227, 8238>>,   \* Fsign
     <<7, 218>>,   \* LoadFp
     <<29999, 6952>>,   \* LoadReserveStoreCond
     <<55, 32961>>,   \* Lui
     <<6043, 23796>>,   \* Slliw
     <<5051, 16829>>,   \* Sllw
     <<23835, 52773>>,   \* Sraliw
     <<1703, 69>>    \* StoreFp
    }

\* the instruction main()'s loop makes of the halfwords lo and hi
\* a decoder with a latch: it decodes until the first instruction has run
DecodeLatched(lo, hi) ==
    IF steps > 0 THEN NoInst
    ELSE IF lo % 4 = 3 THEN decode32(lo, hi) ELSE decode16(lo)

Decode(lo, hi) == IF lo % 4 = 3 THEN decode32(lo, hi) ELSE decode16(lo)

\* an opc_sz that stays at 2
OpcSzTwo(lo) == 2

OpcSz(lo) == IF lo % 4 = 3 THEN 4 ELSE 2

ExecCall(w, max) ==
    /\ ~crashed
    /\ ~hung
    /\ steps < max
    /\ \E inst \in {Decode(w[1], w[2])} :
         /\ inst # NoInst
         /\ steps' = steps + 1
         /\ \E s1 \in {execute(inst, Machine)} : Install(s1)
         /\ last' = [op |-> "exec", inst |-> inst, size |-> OpcSz(w[1])]
         /\ UNCHANGED <<run, junk, env>>

ExecWord(w) == ExecCall(w, MaxExecOps)

InitExec == InitData /\ env \in {e \in Envs : ~e.hostfail}

NextExec ==
    \/ \E num \in SetRegNums, val \in SetRegVals : SetRegCall(num, val, MaxExecOps)
    \/ \E w \in ExecWords : ExecWord(w)

SpecExec == InitExec /\ [][NextExec]_vars

-----------------------------------------------------------------------------
(* Atomic memory operations on a block that holds the words 5, 0x80000001
   and 9 *)

MaxAmoOps == 3

AmoBytes == <<5, 0, 0, 0, 1, 0, 0, 128, 9, 0, 0, 0, 0, 0, 0, 0>>

AmoVas == {DataVa, Add64(DataVa, Four)}
AmoVals == {FromNat(7), Ones64}

AmoWords ==
    {
     <<41647, 116>>,   \* amoadd.w x5, x7, (x9)
     <<45743, 116>>,   \* amoadd.d x5, x7, (x9)
     <<41647, 2164>>,   \* amoswap.w x5, x7, (x9)
     <<45743, 2164>>,   \* amoswap.d x5, x7, (x9)
     <<41647, 8308>>,   \* amoxor.w x5, x7, (x9)
     <<45743, 8308>>,   \* amoxor.d x5, x7, (x9)
     <<41647, 16500>>,   \* amoor.w x5, x7, (x9)
     <<45743, 16500>>,   \* amoor.d x5, x7, (x9)
     <<41647, 24692>>,   \* amoand.w x5, x7, (x9)
     <<45743, 24692>>,   \* amoand.d x5, x7, (x9)
     <<41647, 32884>>,   \* amomin.w x5, x7, (x9)
     <<45743, 32884>>,   \* amomin.d x5, x7, (x9)
     <<41647, 41076>>,   \* amomax.w x5, x7, (x9)
     <<45743, 41076>>,   \* amomax.d x5, x7, (x9)
     <<41647, 49268>>,   \* amominu.w x5, x7, (x9)
     <<45743, 49268>>,   \* amominu.d x5, x7, (x9)
     <<41647, 57460>>,   \* amomaxu.w x5, x7, (x9)
     <<45743, 57460>>,   \* amomaxu.d x5, x7, (x9)
     <<42159, 116>>,   \* amoadd.w x9, x7, (x9)
     <<41903, 116>>   \* amoadd.w x7, x7, (x9)
    }

InitAmo ==
    /\ InitArch
    /\ blocks = addBlock(<<>>, DataVa, FromNat(Len(AmoBytes)), AmoBytes)
    /\ host = InitHost
    /\ run = NoRun
    /\ junk \in JunkBytes
    /\ env = Benign
    /\ crashed = FALSE
    /\ hung = FALSE
    /\ steps = 0
    /\ last = NoCall

NextAmo ==
    \/ \E va \in AmoVas : SetRegCall(9, va, MaxAmoOps)
    \/ \E val \in AmoVals : SetRegCall(7, val, MaxAmoOps)
    \/ \E w \in AmoWords : ExecCall(w, MaxAmoOps)

SpecAmo == InitAmo /\ [][NextAmo]_vars

-----------------------------------------------------------------------------
(* Conditional branches on chosen register values *)

MaxBranchOps == 3

BranchRegs == {1, 2}
BranchVals == {Z64, FromNat(3), Ones64, MinS64}

BranchWords ==
    {
     <<33891, 32>>,   \* beq x1, x2, +8
     <<36579, 65056>>,   \* beq x1, x2, -4
     <<37987, 32>>,   \* bne x1, x2, +8
     <<40675, 65056>>,   \* bne x1, x2, -4
     <<50275, 32>>,   \* blt x1, x2, +8
     <<52963, 65056>>,   \* blt x1, x2, -4
     <<54371, 32>>,   \* bge x1, x2, +8
     <<57059, 65056>>,   \* bge x1, x2, -4
     <<58467, 32>>,   \* bltu x1, x2, +8
     <<61155, 65056>>,   \* bltu x1, x2, -4
     <<62563, 32>>,   \* bgeu x1, x2, +8
     <<65251, 65056>>,   \* bgeu x1, x2, -4
     <<403, 112>>   \* addi x3, x0, 7
    }

NextBranch ==
    \/ \E num \in BranchRegs, val \in BranchVals : SetRegCall(num, val, MaxBranchOps)
    \/ \E w \in BranchWords : ExecCall(w, MaxBranchOps)

SpecBranch == InitArchCalls /\ [][NextBranch]_vars

-----------------------------------------------------------------------------
(* main(): HostSystem::loadElf, then the fetch-decode-execute loop *)

\* an ELF image: its entry point and its PT_LOAD program headers, each with
\* the p_filesz bytes of the file at p_offset
Segment(vaddr, data, memsz, align) ==
    [p_vaddr |-> vaddr, p_filesz |-> Len(data), p_memsz |-> memsz,
     p_align |-> align, data |-> data]

LoadSegment(s, phdr) ==
    LET file_sz    == FromNat(phdr.p_filesz)
        tgt0       == IF phdr.p_memsz > phdr.p_filesz THEN FromNat(phdr.p_memsz)
                      ELSE file_sz
        align_mask == Sub64(FromNat(phdr.p_align), FromNat(1))
        end_addr   == Add64(FromNat(phdr.p_vaddr), tgt0)
        spill      == And64(end_addr, align_mask)
        tgt_sz     == IF spill # Z64
                      THEN Add64(tgt0, Sub64(FromNat(phdr.p_align), spill))
                      ELSE tgt0
        sz         == IF LtU(file_sz, tgt_sz) THEN tgt_sz ELSE file_sz
        block      == [k \in 1..ToNat(sz) |->
                          IF k <= phdr.p_filesz THEN phdr.data[k] ELSE 0]
        end_of_block == Sub64(Add64(FromNat(phdr.p_vaddr), sz), FromNat(1))
        top        == IF LtU(s.host.top_of_mem, end_of_block) THEN end_of_block
                      ELSE s.host.top_of_mem
    IN  [AddBlock(s, FromNat(phdr.p_vaddr), Zext32(sz), block)
            EXCEPT !.host.top_of_mem = top]

RECURSIVE LoadSegments(_, _, _)
LoadSegments(s, phdrs, k) ==
    IF k > Len(phdrs) \/ s.crashed THEN s
    ELSE LoadSegments(LoadSegment(s, phdrs[k]), phdrs, k + 1)

\* the name of the ELF file on the command line: "prog"
ProgName == <<112, 114, 111, 103>>

loadElf(s, img) ==
    [SetPc(LoadSegments(s, img.phdrs, 1), FromNat(img.e_entry))
        EXCEPT !.host.prog_name = ProgName]

\* a padTo16 that pads nothing
PadNone(begin) == begin

\* padTo16 (sizes and stack addresses stay far below 2^31)
PadTo16(begin) == IF begin % 16 # 0 THEN begin + 16 - (begin % 16) ELSE begin

\* the stack block: 4 MB at 0x10000000
StackVa == 4096 * 65536
StackSz == 4096 * 1024

\* env_sz: every string with its NUL, padded to 16
RECURSIVE EnvSz(_, _)
EnvSz(strs, k) ==
    IF k > Len(strs) THEN 0 ELSE PadTo16(Len(strs[k]) + 1) + EnvSz(strs, k + 1)

\* sim_argv: where the strings k.. go when string k goes to ptr
RECURSIVE ArgvFrom(_, _, _)
ArgvFrom(strs, k, ptr) ==
    IF k > Len(strs) THEN <<>>
    ELSE <<ptr>> \o ArgvFrom(strs, k + 1, PadTo16(ptr + Len(strs[k]) + 1))

\* the strings k.. written with their NUL to the addresses argv[k]..
RECURSIVE PutStrings(_, _, _, _)
PutStrings(s, strs, argv, k) ==
    IF k > Len(strs) THEN s
    ELSE PutStrings(PutBytes(s, FromNat(argv[k]), strs[k] \o <<0>>, 1), strs, argv, k + 1)

\* the 8-byte cells k.. of vals written from ptr + 8 * (k - 1) on
RECURSIVE PutCells(_, _, _, _)
PutCells(s, ptr, vals, k) ==
    IF k > Len(vals) THEN s
    ELSE PutCells(WriteMem(s, FromNat(ptr + 8 * (k - 1)), 8, FromNat(vals[k])),
                  ptr, vals, k + 1)

\* what ::open returns for the next file the host opens
HostOpen(s, fds) ==
    IF s.hostfail THEN BadFd
    ELSE <<4 + Cardinality({j \in 1..Len(fds) : fds[j] # BadFd}), 0>>

StdoutName == <<115, 116, 100, 111, 117, 116>>
StderrName == <<115, 116, 100, 101, 114, 114>>

\* the standard descriptors, with no file given for stdin: -1, stdout.<pid>,
\* stderr.<pid>
StdFds(s) ==
    LET out == HostOpen(s, <<BadFd>>)
    IN  [s EXCEPT !.host.fds = <<BadFd, out, HostOpen(s, <<BadFd, out>>)>>,
                  !.host.opened = <<[path |-> <<>>, write |-> FALSE],
                                    [path |-> StdoutName, write |-> TRUE],
                                    [path |-> StderrName, write |-> TRUE]>>]

\* HostSystem::completeEnv with the arguments args (argv[1..n])
EnvWritten(s, strs, argv, final_sp) ==
    PutCells(WriteMem(PutStrings(s, strs, argv, 1), FromNat(final_sp), 8,
                      FromNat(Len(strs))),
             final_sp + 8, argv, 1)

EnvRegs(s, argc, final_sp) ==
    SetReg(SetReg(SetReg(s, 2, FromNat(final_sp)), 10, FromNat(argc)),
           11, FromNat(final_sp))

EnvStrings(s, strs) ==
    EnvRegs(EnvWritten(s, strs,
                       ArgvFrom(strs, 1, StackVa + StackSz - EnvSz(strs, 1) - 16),
                       StackVa + StackSz \div 2),
            Len(strs), StackVa + StackSz \div 2)

completeEnv(s, args) ==
    StdFds(EnvStrings(AddBlock(s, FromNat(StackVa), FromNat(StackSz), NoData),
                      <<s.host.prog_name>> \o args))

\* the images' entry point and load address, 0x100
Entry == 64 * 4

\* addi x17, x0, 93; ecall; c.li x10, 1; c.j +0
ExitProgram ==
    [e_entry |-> Entry,
     phdrs |-> <<Segment(Entry, <<147, 8, 208, 5, 115, 0, 0, 0, 5, 69, 1, 160>>, 12, 16)>>]

\* c.addi x9, 1; c.j +0
LoopProgram ==
    [e_entry |-> Entry, phdrs |-> <<Segment(Entry, <<133, 4, 1, 160>>, 4, 16)>>]

\* c.ebreak and fence (both decode to null); c.li x10, 1; c.jr x1
NullProgram ==
    [e_entry |-> Entry,
     phdrs |-> <<Segment(Entry, <<2, 144, 15, 0, 0, 0, 5, 69, 130, 128>>, 10, 16)>>]

\* addi x17, x0, 56; addi x11, x0, path; addi x12, x0, 1; ecall   (open)
\* addi x17, x0, 64; c.slli x12, 32; ecall                         (write)
\* c.j +0; path: "a"
WriteProgram ==
    [e_entry |-> Entry,
     phdrs |-> <<Segment(Entry,
                    <<147, 8, 128, 3, 147, 5, 192, 17, 19, 6, 16, 0, 115, 0, 0, 0,
                      147, 8, 0, 4, 2, 22, 115, 0, 0, 0, 1, 160, 97, 0>>, 30, 16)>>]

\* the words 55F1, 4605, 9E2D of the test program, then c.j +0:
\* c.li x11, -4; c.li x12, 1; c.addw x12, x11
AddwProgram ==
    [e_entry |-> Entry,
     phdrs |-> <<Segment(Entry, <<241, 85, 5, 70, 45, 158, 1, 160>>, 8, 16)>>]

Programs == {ExitProgram, LoopProgram, NullProgram, WriteProgram, AddwProgram}

MaxIcount == 8

\* the values of -i; 0 is no budget
Budgets == 0..MaxIcount

InitRun ==
    \E img \in Programs, jb \in JunkBytes, e \in Envs :
        \E s \in {loadElf([pc |-> Z64, ireg |-> [r \in Regs |-> Z64],
                           freg |-> [r \in Regs |-> Z64], cregs |-> [c \in {} |-> Z64],
                           blocks |-> <<>>, host |-> InitHost, crashed |-> FALSE,
                           hung |-> FALSE, junk |-> jb, trap |-> e.trap,
                           hostfail |-> e.hostfail], img)} :
            /\ pc = s.pc
            /\ ireg = s.ireg
            /\ freg = s.freg
            /\ cregs = s.cregs
            /\ blocks = s.blocks
            /\ host = s.host
            /\ crashed = s.crashed
            /\ hung = s.hung
            /\ junk = jb
            /\ env = e
            /\ \E n \in Budgets : run = [icount |-> 0, max_icount |-> n, state |-> "run"]
            /\ steps = 0
            /\ last = NoCall

\* the loop's first statement: if (host.hadExit()) break
LoopExit ==
    /\ run.state = "run"
    /\ ~crashed
    /\ ~hung
    /\ host.exited
    /\ run' = [run EXCEPT !.state = "done"]
    /\ last' = [op |-> "break"]
    /\ UNCHANGED <<pc, ireg, freg, cregs, blocks, host, junk, env, crashed, hung, steps>>

\* one iteration of the loop past that test: fetch, decode, execute or skip,
\* ++icount and the test of the budget; an iteration whose execute kills
\* the process or does not return reaches neither
LoopStep ==
    /\ run.state = "run"
    /\ ~crashed
    /\ ~hung
    /\ ~host.exited
    /\ run.icount < MaxIcount
    /\ \E opc \in {ReadMem(Machine, pc, 2)[1]} :
       \E inst \in {Decode(opc, ReadMem(Machine, Add64(pc, FromNat(2)), 2)[1])} :
       \E s1 \in {IF inst = NoInst THEN IncPc(Machine, FromNat(OpcSz(opc)))
                  ELSE execute(inst, Machine)} :
         LET counted == ~s1.crashed /\ ~s1.hung
             icount  == IF counted THEN run.icount + 1 ELSE run.icount
             over    == counted /\ run.max_icount # 0 /\ icount >= run.max_icount
         IN  /\ Install(s1)
             /\ run' = [run EXCEPT !.icount = icount,
                                   !.state = IF over THEN "done" ELSE "run"]
             /\ last' = [op |-> "step", pc |-> pc, inst |-> inst, size |-> OpcSz(opc)]
             /\ UNCHANGED <<junk, env, steps>>

NextRun == LoopExit \/ LoopStep

SpecRun == InitRun /\ [][NextRun]_vars

-----------------------------------------------------------------------------
(* Properties of the registers, the CSRs and the round trip through memory *)

\* C1: x0 always reads 0, after any sequence of set_reg calls and executed
\* instructions (those whose destination is register 0 included), and a
\* set_reg(0, v) changes no register.
C1_X0ReadsZero ==
    [][/\ getReg(ireg', 0) = Z64
       /\ (last'.op \in {"setReg", "exec"} => ireg'[0] = ireg[0])
       /\ ((last'.op = "setReg" /\ last'.num = 0) => ireg' = ireg)]_vars

\* a set_reg(0, 0xffffffffffffffff) made while x9 holds a non-zero value
C1_Witness ==
    /\ last.op = "setReg"
    /\ last.num = 0
    /\ last.val = Ones64
    /\ getReg(ireg, 9) # Z64

C6_CsrSubFields ==
    /\ (last.op = "setCr" /\ last.csr = FFLAGS) =>
            /\ getCr(cregs, FFLAGS) = And64(last.val, FromNat(31))
            /\ getCr(cregs, FRM) = last.frm
    /\ (last.op = "setCr" /\ last.csr = FRM) =>
            /\ getCr(cregs, FRM) = And64(last.val, FromNat(7))
            /\ getCr(cregs, FFLAGS) = last.fflags
    /\ FCSR \in DOMAIN cregs =>
            /\ getCr(cregs, FFLAGS) = FromNat(cregs[FCSR][1] % 32)
            /\ getCr(cregs, FRM) = FromNat((cregs[FCSR][1] \div 32) % 8)
            /\ getCr(cregs, FCSR) = cregs[FCSR]
    /\ \A c \in ReadCsrs :
            (c % L16) \notin DOMAIN cregs \cup {FFLAGS, FRM} => getCr(cregs, c) = Z64
    /\ FCSR \notin DOMAIN cregs =>
            \A c \in {FFLAGS, FRM, FCSR} : getCr(cregs, c) = Z64

\* fflags written while fcsr is present and frm is not 0
C6_Witness ==
    /\ last.op = "setCr"
    /\ last.csr = FFLAGS
    /\ last.found
    /\ last.frm # Z64
    /\ last.val = FromNat(165)

-----------------------------------------------------------------------------
(* Properties of decode and execute, checked under SpecExec *)

\* the instruction is a jump, or a branch as the claim exempts it: any
\* 32-bit branch, and a compressed branch that is taken
Exempt(i, ir) ==
    \/ i.cls \in {"CompJ", "CompJr", "CompJalr", "Jal", "Jalr", "Branch"}
    \/ /\ i.cls = "CompBz"
       /\ (getReg(ir, i.rs) = Z64) = i.eq

\* C7: the execute of an instruction that decode16 produced advances PC by
\* exactly 2 unless it is a taken branch or a jump; the execute of an
\* instruction that decode32 produced and that is no branch or jump advances
\* PC by exactly 4.
C7_PcAdvancesBySize ==
    [][(last'.op = "exec" /\ ~Exempt(last'.inst, ireg))
       => pc' = Add64(pc, FromNat(last'.size))]_vars

-----------------------------------------------------------------------------
(* Calls of HostSystem::sbrk on the image of LoopProgram (one block of 16
   bytes at Entry, top of memory Entry + 15), with guest stores between *)

MaxSbrkOps == 3

\* the requests: 0, below the image, the top itself, above the top, and
\* 2^32 above the first top
SbrkReqs ==
    {Z64, FromNat(80), FromNat(Entry + 15), FromNat(Entry + 31), FromNat(Entry + 47),
     FromNat(Entry + 271), <<Entry + 15, 0, 1, 0>>}

StoreVas == {FromNat(Entry + 16), FromNat(Entry + 31)}

InitSbrk ==
    \E jb \in JunkBytes :
        \E s \in {loadElf([pc |-> Z64, ireg |-> [r \in Regs |-> Z64],
                           freg |-> [r \in Regs |-> Z64], cregs |-> [c \in {} |-> Z64],
                           blocks |-> <<>>, host |-> InitHost, crashed |-> FALSE,
                           hung |-> FALSE, junk |-> jb, trap |-> FALSE,
                           hostfail |-> FALSE], LoopProgram)} :
            /\ pc = s.pc
            /\ ireg = s.ireg
            /\ freg = s.freg
            /\ cregs = s.cregs
            /\ blocks = s.blocks
            /\ host = s.host
            /\ crashed = s.crashed
            /\ hung = s.hung
            /\ junk = jb
            /\ env = Benign
            /\ run = NoRun
            /\ steps = 0
            /\ last = NoCall

\* host.sbrk(state) with the request in x15
SbrkCall(req, max) ==
    /\ ~crashed
    /\ ~hung
    /\ steps < max
    /\ steps' = steps + 1
    /\ \E s1 \in {sbrk(SetReg(Machine, 15, req))} : Install(s1)
    /\ last' = [op |-> "sbrk", req |-> req]
    /\ UNCHANGED <<run, junk, env>>

\* state.writeMem(va, 1, 0xab)
StoreCall(va, max) ==
    /\ ~crashed
    /\ ~hung
    /\ steps < max
    /\ steps' = steps + 1
    /\ \E s1 \in {WriteMem(Machine, va, 1, FromNat(171))} : Install(s1)
    /\ last' = [op |-> "store", va |-> va]
    /\ UNCHANGED <<run, junk, env>>

NextSbrk ==
    \/ \E req \in SbrkReqs : SbrkCall(req, MaxSbrkOps)
    \/ \E va \in StoreVas : StoreCall(va, MaxSbrkOps)

SpecSbrk == InitSbrk /\ [][NextSbrk]_vars

-----------------------------------------------------------------------------
(* Calls of HostSystem::open and HostSystem::readlinkat on a block that
   holds the strings "/dev/tty", "a" and "/proc/self/exe" and a buffer *)

MaxSysOps == 3

PathBytes == DevTty \o <<0, 97, 0>> \o ProcSelfExe \o <<0>>
              \o <<255, 255, 255, 255, 255, 255, 255, 255, 255, 255, 255, 255,
                   255, 255, 255, 255, 255, 255, 255, 255>>

TtyVa == DataVa
FileVa == Add64(DataVa, FromNat(Len(DevTty) + 1))
ExeVa == Add64(FileVa, FromNat(2))
BufVa == Add64(ExeVa, FromNat(Len(ProcSelfExe) + 1))
BufLen == Len(PathBytes) - (Len(DevTty) + Len(ProcSelfExe) + 4)

InitSys ==
    /\ InitArch
    /\ blocks = addBlock(<<>>, DataVa, FromNat(Len(PathBytes)), PathBytes)
    /\ host = [InitHost EXCEPT !.prog_name = ProgName]
    /\ run = NoRun
    /\ junk \in JunkBytes
    /\ env \in {e \in Envs : ~e.trap}
    /\ crashed = FALSE
    /\ hung = FALSE
    /\ steps = 0
    /\ last = NoCall

\* host.open(state) with the path in x11 and the flags in x12
OpenCall(path, flags, max) ==
    /\ ~crashed
    /\ ~hung
    /\ steps < max
    /\ steps' = steps + 1
    /\ \E s1 \in {open(SetReg(SetReg(Machine, 11, path), 12, flags))} : Install(s1)
    /\ last' = [op |-> "open", path |-> path, flags |-> flags]
    /\ UNCHANGED <<run, junk, env>>

\* host.readlinkat(state) with the path in x11, the buffer in x12 and its
\* size in x13
ReadlinkatCall(path, buf, buf_sz, max) ==
    /\ ~crashed
    /\ ~hung
    /\ steps < max
    /\ steps' = steps + 1
    /\ \E s1 \in {readlinkat(SetReg(SetReg(SetReg(Machine, 11, path), 12, buf),
                                     13, buf_sz))} : Install(s1)
    /\ last' = [op |-> "readlinkat", path |-> path, buf |-> buf, buf_sz |-> buf_sz]
    /\ UNCHANGED <<run, junk, env>>

OpenPaths == {Z64, TtyVa, FileVa}
OpenFlags == {Z64, FromNat(1)}

NextOpen == \E path \in OpenPaths, flags \in OpenFlags : OpenCall(path, flags, MaxSysOps)

SpecOpen == InitSys /\ [][NextOpen]_vars

ReadlinkPaths == {Z64, FileVa, ExeVa}
ReadlinkBufs == {Z64, BufVa}
ReadlinkSizes == {Z64, FromNat(3), FromNat(BufLen)}

NextReadlink ==
    \E path \in ReadlinkPaths, buf \in ReadlinkBufs, buf_sz \in ReadlinkSizes :
        ReadlinkatCall(path, buf, buf_sz, MaxSysOps)

SpecReadlink == InitSys /\ [][NextReadlink]_vars

-----------------------------------------------------------------------------
(* HostSystem::completeEnv and the write system call, on a block that holds
   the string "hello" *)

MaxEnvOps == 3
MaxEnvArgs == 2

HelloBytes == <<104, 101, 108, 108, 111, 0>>
HelloVa == DataVa

\* the argument strings: empty, "a", and two around the padding boundary
\* (with their NUL: 16 and 17 bytes)
ArgStrs == {<<>>, <<97>>, [k \in 1..15 |-> 97 + k], [k \in 1..16 |-> 64 + k]}

RECURSIVE ArgLists(_)
ArgLists(n) ==
    IF n = 0 THEN {<<>>}
    ELSE ArgLists(n - 1) \cup {Append(l, a) : l \in {x \in ArgLists(n - 1) : Len(x) = n - 1},
                                             a \in ArgStrs}

InitEnv ==
    /\ InitArch
    /\ blocks = addBlock(<<>>, DataVa, FromNat(Len(HelloBytes)), HelloBytes)
    /\ host = [InitHost EXCEPT !.prog_name = ProgName]
    /\ run = NoRun
    /\ junk \in JunkBytes
    /\ env \in {e \in Envs : ~e.trap}
    /\ crashed = FALSE
    /\ hung = FALSE
    /\ steps = 0
    /\ last = NoCall

\* host.completeEnv(state), once, before anything else
CompleteEnvCall(args, max) ==
    /\ last = NoCall
    /\ steps < max
    /\ steps' = steps + 1
    /\ \E s1 \in {completeEnv(Machine, args)} : Install(s1)
    /\ last' = [op |-> "completeEnv", args |-> args]
    /\ UNCHANGED <<run, junk, env>>

\* an ECALL with x17 = 64, the descriptor in x10, the buffer in x11 and the
\* count in x12
WriteArgs(s, fd, buf, ct) ==
    SetReg(SetReg(SetReg(SetReg(s, 17, FromNat(64)), 10, fd), 11, buf), 12, ct)

WriteCall(fd, buf, ct, max) ==
    /\ ~crashed
    /\ ~hung
    /\ steps < max
    /\ steps' = steps + 1
    /\ \E s1 \in {Ecall([cls |-> "Ecall"], WriteArgs(Machine, fd, buf, ct))} : Install(s1)
    /\ last' = [op |-> "write", fd |-> fd, buf |-> buf, ct |-> ct]
    /\ UNCHANGED <<run, junk, env>>

WriteFds == {Z64, FromNat(1), FromNat(3), <<1, 0, 1, 0>>}
WriteBufs == {HelloVa, Add64(HelloVa, FromNat(2))}
WriteCts == {Z64, FromNat(3), FromNat(5), <<5, 0, 1, 0>>}

NextEnv ==
    \/ \E args \in ArgLists(MaxEnvArgs) : CompleteEnvCall(args, MaxEnvOps)
    \/ \E fd \in WriteFds, buf \in WriteBufs, ct \in WriteCts :
           WriteCall(fd, buf, ct, MaxEnvOps)

SpecEnv == InitEnv /\ [][NextEnv]_vars

-----------------------------------------------------------------------------
(* Shifts and multiplications on registers x1 and x2 written through setReg *)

MaxAluOps == 3

AluRegs == {1, 2}
AluVals == {Z64, FromNat(1), FromNat(3), FromNat(63), FromNat(65), <<0, 0, 1, 0>>,
            MinS64, Ones64}

SrlwWord == <<53691, 32>>   \* srlw x3, x1, x2
SrawWord == <<53691, 16416>>   \* sraw x3, x1, x2

AluWords ==
    {
     <<37299, 32>>,   \* sll x3, x1, x2
     <<53683, 32>>,   \* srl x3, x1, x2
     <<53683, 16416>>,   \* sra x3, x1, x2
     <<33203, 544>>,   \* mul x3, x1, x2
     <<37299, 544>>,   \* mulh x3, x1, x2
     <<41395, 544>>,   \* mulhsu x3, x1, x2
     <<45491, 544>>,   \* mulhu x3, x1, x2
     <<37275, 64>>,   \* slliw x3, x1, 4
     <<37275, 496>>,   \* slliw x3, x1, 31
     <<53659, 64>>,   \* srliw x3, x1, 4
     <<53659, 0>>,   \* srliw x3, x1, 0
     <<53659, 16448>>,   \* sraiw x3, x1, 4
     <<53659, 16880>>,   \* sraiw x3, x1, 31
     <<37307, 32>>,   \* sllw x3, x1, x2
     SrlwWord,
     SrawWord
    }

NextAlu ==
    \/ \E num \in AluRegs, val \in AluVals : SetRegCall(num, val, MaxAluOps)
    \/ \E w \in AluWords : ExecCall(w, MaxAluOps)

SpecAlu == InitArchCalls /\ [][NextAlu]_vars

-----------------------------------------------------------------------------
(* C.LWSP with every offset, on a block of 256 bytes that x2 can point at *)

MaxLwspOps == 3

\* the byte at offset o is (o + 128) mod 256: the words at the low offsets
\* are negative, no two words are equal
LwspBytes == [k \in 1..256 |-> (k + 127) % 256]

\* the offset the bits of a C.LWSP word stand for: offset[5] = word[12],
\* offset[4:2] = word[6:4], offset[7:6] = word[3:2]
LwspOff(opc) == 32 * Bit(opc, 12) + 4 * Bits(opc, 4, 3) + 64 * Bits(opc, 2, 2)

\* the word c.lwsp rd, off(x2)
LwspWord(rd, off) ==
    16384 + 4096 * ((off \div 32) % 2) + 128 * rd + 16 * ((off \div 4) % 8)
          + 4 * (off \div 64) + 2

LwspWords == {<<LwspWord(5, 4 * k), 0>> : k \in 0..63}

InitLwsp ==
    /\ InitArch
    /\ blocks = addBlock(<<>>, DataVa, FromNat(Len(LwspBytes)), LwspBytes)
    /\ host = InitHost
    /\ run = NoRun
    /\ junk \in JunkBytes
    /\ env = Benign
    /\ crashed = FALSE
    /\ hung = FALSE
    /\ steps = 0
    /\ last = NoCall

NextLwsp ==
    \/ SetRegCall(2, DataVa, MaxLwspOps)
    \/ \E w \in LwspWords : ExecCall(w, MaxLwspOps)

SpecLwsp == InitLwsp /\ [][NextLwsp]_vars

-----------------------------------------------------------------------------
(* LR and SC on the block of SpecAmo *)

MaxLrscOps == 3

LrscWords ==
    {
     <<41647, 4100>>,   \* lr.w x5, (x9)
     <<45743, 4100>>,   \* lr.d x5, (x9)
     <<41647, 6260>>,   \* sc.w x5, x7, (x9)
     <<45743, 6260>>,   \* sc.d x5, x7, (x9)
     <<42159, 6260>>,   \* sc.w x9, x7, (x9)
     <<41903, 6260>>   \* sc.w x7, x7, (x9)
    }

NextLrsc ==
    \/ \E va \in AmoVas : SetRegCall(9, va, MaxLrscOps)
    \/ \E val \in AmoVals : SetRegCall(7, val, MaxLrscOps)
    \/ \E w \in LrscWords : ExecCall(w, MaxLrscOps)

SpecLrsc == InitAmo /\ [][NextLrsc]_vars

-----------------------------------------------------------------------------
(* The dataflow tool (dfg): one opcode per line of its input file.  In this
   specification run holds the tool's variables: icount, the maps prod_int
   and prod_fp (a missing key reads 0 and is then present with 0), and the
   lines read so far as decoded. *)

MaxLines == 3

IntDep(n) == [rf |-> "INT", reg |-> n]
FpDep(n) == [rf |-> "FLOAT", reg |-> n]

\* Inst::dsts of the classes of DfgWords
dsts(i) ==
    CASE i.cls \in {"CompLI", "CompMv", "OpImm", "OpRegReg"} -> <<IntDep(i.rd)>>
      [] i.cls = "Store" -> <<>>
      [] i.cls = "Fmove" -> IF i.to_float THEN <<FpDep(i.rd)>> ELSE <<IntDep(i.rd)>>
      [] i.cls = "Fsign" -> <<FpDep(i.rd)>>

\* Inst::srcs of the classes of DfgWords
srcs(i) ==
    CASE i.cls = "CompLI" -> <<>>
      [] i.cls = "CompMv" -> <<IntDep(i.rs)>>
      [] i.cls = "OpImm" -> <<IntDep(i.r1)>>
      [] i.cls \in {"OpRegReg", "Store"} -> <<IntDep(i.r1), IntDep(i.r2)>>
      [] i.cls = "Fmove" -> IF i.to_float THEN <<IntDep(i.r1)>> ELSE <<FpDep(i.r1)>>
      [] i.cls = "Fsign" -> <<FpDep(i.r1), FpDep(i.r2)>>

\* a lookup that keeps one map for both register files
ProducerOneMap(r, dep) == r.prod_int[dep.reg]

\* srci: the producer the maps hold for a source
Producer(r, dep) ==
    IF dep.rf = "INT" THEN r.prod_int[dep.reg]
    ELSE IF dep.rf = "FLOAT" THEN r.prod_fp[dep.reg]
    ELSE 0

\* the maps after the destinations k.. have been given the producer n
RECURSIVE SetProducers(_, _, _, _)
SetProducers(r, ds, k, n) ==
    IF k > Len(ds) THEN r
    ELSE SetProducers(IF ds[k].rf = "INT" THEN [r EXCEPT !.prod_int[ds[k].reg] = n]
                      ELSE IF ds[k].rf = "FLOAT" THEN [r EXCEPT !.prod_fp[ds[k].reg] = n]
                      ELSE r,
                      ds, k + 1, n)

\* the producers printed for the sources ss: those that are not 0
Printed(r, ss) == SelectSeq([k \in 1..Len(ss) |-> Producer(r, ss[k])], LAMBDA p : p # 0)

DfgWords ==
    {
     <<147, 112>>,   \* addi x1, x0, 7
     <<33203, 32>>,   \* add x3, x1, x2
     <<32947, 16>>,   \* add x1, x1, x1
     <<32979, 61440>>,   \* fmv.w.x f1, x1
     <<33107, 57344>>,   \* fmv.x.w x2, f1
     <<33235, 8224>>,   \* fsgnj.s f3, f1, f2
     <<12323, 17>>,   \* sd x1, 0(x2)
     <<16533, 0>>,   \* c.li x1, 5
     <<33030, 0>>,   \* c.mv x2, x1
     SrlwWord   \* no decode
    }

InitDfg ==
    /\ InitArch
    /\ blocks = <<>>
    /\ host = InitHost
    /\ run = [icount |-> 0, prod_int |-> [r \in Regs |-> 0], prod_fp |-> [r \in Regs |-> 0],
              lines |-> <<>>]
    /\ junk \in JunkBytes
    /\ env = Benign
    /\ crashed = FALSE
    /\ hung = FALSE
    /\ steps = 0
    /\ last = NoCall

\* one iteration of the loop over the lines: the line holds the word w
DfgLine(w) ==
    /\ run.icount < MaxLines
    /\ \E inst \in {Decode(w[1], w[2])} :
         IF inst = NoInst
         THEN /\ run' = [run EXCEPT !.icount = @ + 1, !.lines = Append(@, inst)]
              /\ last' = [op |-> "line", inst |-> inst, printed |-> <<>>]
         ELSE /\ run' = [SetProducers(run, dsts(inst), 1, run.icount + 1)
                            EXCEPT !.icount = @ + 1, !.lines = Append(@, inst)]
              /\ last' = [op |-> "line", inst |-> inst,
                          printed |-> Printed(run, srcs(inst))]
    /\ UNCHANGED <<pc, ireg, freg, cregs, blocks, host, junk, env, crashed, hung, steps>>

NextDfg == \E w \in DfgWords : DfgLine(w)

SpecDfg == InitDfg /\ [][NextDfg]_vars

-----------------------------------------------------------------------------
(* Properties of the fetch-decode-execute loop, checked under SpecRun *)

IsExit(ir) == getReg(ir, 17) \in {FromNat(93), FromNat(94)}

\* C8: an executed ECALL with x17 = 93 or 94 sets the host's exited flag;
\* once set the flag is never cleared, the only thing the loop does then is
\* to leave at the top of the next iteration, and no instruction executes:
\* registers, CSRs, memory and PC stay as the ECALL left them.
C8_ExitIsFinal ==
    [][/\ (last'.op = "step" /\ last'.inst.cls = "Ecall" /\ IsExit(ireg))
            => host'.exited
       /\ host.exited =>
            /\ host'.exited
            /\ last'.op = "break"
            /\ run'.state = "done"
            /\ run'.icount = run.icount
            /\ UNCHANGED <<pc, ireg, freg, cregs, blocks>>]_vars

\* the loop has left after the exit of ExitProgram: the c.li x10, 1 that
\* follows the ECALL was not executed
C8_Witness ==
    /\ host.exited
    /\ run.state = "done"
    /\ last.op = "break"
    /\ pc = FromNat(Entry + 8)
    /\ getReg(ireg, 17) = FromNat(93)
    /\ getReg(ireg, 10) = Z64

\* C9: with a budget N > 0 the loop ends after at most N iterations,
\* whatever the guest program does: every iteration the loop enters comes to
\* its end (unless the process is killed), counts towards the budget whether
\* its opcode decoded to an instruction or to null, and is the last one when
\* the count reaches N.
C9_BudgetEndsLoop ==
    [][(last'.op = "step" /\ run.max_icount > 0 /\ ~crashed')
       => (/\ ~hung'
           /\ run'.icount = run.icount + 1
           /\ run'.icount <= run.max_icount
           /\ (run'.icount = run.max_icount => run'.state = "done"))]_vars

\* C10: with PC in [0, 63] at the top of an iteration, no instruction is
\* fetched or executed and the run ends.
C10_ReservedPcEndsRun ==
    [][(run.state = "run" /\ LtU(pc, FromNat(64)))
       => (last'.op # "step" /\ run'.state = "done")]_vars

\* C11: an iteration whose opcode decodes to null advances PC by the opcode
\* size (2 if the low two bits of the first halfword are not 11, else 4),
\* leaves integer registers, FP registers, CSRs and memory alone, and the
\* loop goes on: it ends there only when the budget is reached.
C11_NullSkips ==
    [][(last'.op = "step" /\ last'.inst = NoInst)
       => (/\ pc' = Add64(pc, IF ReadMem(Machine, pc, 2)[1] % 4 = 3
                              THEN Four ELSE FromNat(2))
           /\ UNCHANGED <<ireg, freg, cregs, blocks, host>>
           /\ ~crashed' /\ ~hung'
           /\ run'.icount = run.icount + 1
           /\ (run'.state = "done"
                 => (run.max_icount # 0 /\ run'.icount >= run.max_icount)))]_vars

\* NullProgram has skipped its 2-byte null and then its 4-byte null
C11_Witness ==
    /\ last.op = "step"
    /\ last.inst = NoInst
    /\ last.size = 4
    /\ last.pc = FromNat(Entry + 2)
    /\ pc = FromNat(Entry + 6)
    /\ run.state = "run"
    /\ run.icount = 2

-----------------------------------------------------------------------------
(* Properties of single instructions, checked under SpecExec *)

\* C12: execute of a decoded instruction completes and leaves the simulator
\* running, whatever the registers hold; a division or remainder (also one
\* by zero, or of the most negative value by -1) advances PC by 4.
C12_NeverPanics ==
    [][last'.op = "exec"
       => (/\ ~crashed'
           /\ ~hung'
           /\ (last'.inst.cls \in {"ImulDiv", "MulDivW"}
                 => pc' = Add64(pc, Four)))]_vars

\* C13: C.ADDW and C.SUBW write the 32-bit sum or difference of the low
\* halves of rd' and rs2', sign-extended to 64 bits, into rd' (and advance
\* PC by 2): after c.li x11, -4; c.li x12, 1; c.addw x12, x11 register x12
\* holds 0xFFFFFFFFFFFFFFFD.
C13_WordAluSignExtends ==
    [][(last'.op = "step" /\ last'.inst.cls = "CompAluW" /\ last'.inst.fun \in {0, 1})
       => (/\ getReg(ireg', last'.inst.rsd)
                = Sext32(IF last'.inst.fun = 1
                         THEN Add64(getReg(ireg, last'.inst.rsd), getReg(ireg, last'.inst.r2))
                         ELSE Sub64(getReg(ireg, last'.inst.rsd), getReg(ireg, last'.inst.r2)))
           /\ pc' = Add64(pc, FromNat(2)))]_vars

\* C14: JALR sets rd (when it is not x0) to pc + 4 and PC to
\* (rs1 + sign-ext(imm12)) & ~1 with rs1 the value the register held before
\* the instruction, also when rd = rs1; C.JALR sets x1 to pc + 2 and PC to
\* the old value of rs1 with bit 0 cleared, also when rs1 is x1.
C14_JalrUsesOldRs1 ==
    [][/\ (last'.op = "exec" /\ last'.inst.cls = "Jalr")
            => (/\ last'.inst.rd # 0 => getReg(ireg', last'.inst.rd) = Add64(pc, Four)
                /\ pc' = ClearBit0(Add64(getReg(ireg, last'.inst.r1),
                                         FromInt(last'.inst.imm))))
       /\ (last'.op = "exec" /\ last'.inst.cls = "CompJalr")
            => (/\ getReg(ireg', 1) = Add64(pc, FromNat(2))
                /\ pc' = ClearBit0(getReg(ireg, last'.inst.rs)))]_vars

-----------------------------------------------------------------------------
(* Properties of the conditional branches, checked under SpecBranch *)

\* a with its sign bit inverted: signed order is unsigned order of these
Biased(a) == <<a[1], a[2], a[3], (a[4] + 32768) % L16>>

\* the comparison of the branch op on the values a and b
Holds(op, a, b) ==
    CASE op = 0 -> a = b
      [] op = 1 -> a # b
      [] op = 4 -> LtU(Biased(a), Biased(b))
      [] op = 5 -> ~LtU(Biased(a), Biased(b))
      [] op = 6 -> LtU(a, b)
      [] op = 7 -> ~LtU(a, b)

-----------------------------------------------------------------------------
(* Properties of the atomic memory operations, checked under SpecAmo *)

\* the access of an AMO is to mapped memory
AmoServed(i, ir, blks) == ServeIdx(blks, getReg(ir, i.r1), IF i.dword THEN 8 ELSE 4) # 0

\* C16: an AMO*.W writes to rd the 32-bit value loaded from mem[rs1]
\* sign-extended to 64 bits.
C16_AmoWordSignExtends ==
    [][(last'.op = "exec" /\ last'.inst.cls = "AmoOp" /\ ~last'.inst.dword
          /\ last'.inst.rd # 0 /\ AmoServed(last'.inst, ireg, blocks))
       => getReg(ireg', last'.inst.rd)
            = Sext32(readMem(blocks, getReg(ireg, last'.inst.r1), 4, junk))]_vars


\* the operands of an AMO as values of its size: sign-extended for the
\* signed comparisons
AmoWide(i, v) == IF i.dword THEN v ELSE Sext32(v)
AmoNarrow(i, v) == IF i.dword THEN v ELSE Zext32(v)

\* op(tmp, r2) of the AMO i on operands of its size
AmoResult(i, tmp, r2) ==
    LET st == AmoWide(i, tmp)
        s2 == AmoWide(i, r2)
        ut == AmoNarrow(i, tmp)
        u2 == AmoNarrow(i, r2)
        o  == i.o31_27
    IN  AmoNarrow(i,
          CASE o = 0 -> Add64(tmp, r2)
            [] o = 1 -> r2
            [] o = 4 -> Xor64(tmp, r2)
            [] o = 8 -> Or64(tmp, r2)
            [] o = 12 -> And64(tmp, r2)
            [] o = 16 -> IF LtU(Biased(s2), Biased(st)) THEN s2 ELSE st
            [] o = 20 -> IF LtU(Biased(st), Biased(s2)) THEN s2 ELSE st
            [] o = 24 -> IF LtU(u2, ut) THEN u2 ELSE ut
            [] o = 28 -> IF LtU(ut, u2) THEN u2 ELSE ut)

\* C17: an AMO on mapped memory loads tmp = mem[rs1] on its size (4 or 8
\* bytes), leaves tmp in rd (compared here on the operand's size) and
\* stores op(tmp, rs2), with op one of ADD, SWAP, XOR, OR, AND, MIN, MAX,
\* MINU, MAXU by word[31:27], MIN/MAX signed and MINU/MAXU unsigned on the
\* operand's size; rs1, rs2 and memory are read before rd is written.
C17_AmoReadModifyWrite ==
    [][(last'.op = "exec" /\ last'.inst.cls = "AmoOp"
          /\ last'.inst.o31_27 \in {0, 1, 4, 8, 12, 16, 20, 24, 28}
          /\ AmoServed(last'.inst, ireg, blocks))
       => LET i   == last'.inst
              sz  == IF i.dword THEN 8 ELSE 4
              ea  == getReg(ireg, i.r1)
              tmp == readMem(blocks, ea, sz, junk)
          IN  /\ i.rd # 0 => AmoNarrow(i, getReg(ireg', i.rd)) = tmp
              /\ readMem(blocks', ea, sz, junk) = AmoResult(i, tmp, getReg(ireg, i.r2))
              /\ pc' = Add64(pc, Four)]_vars

-----------------------------------------------------------------------------
(* Properties of sbrk, checked under SpecSbrk *)

\* the read of the byte at a is served by a block
Readable(blks, a) == ServeIdx(blks, a, 1) # 0

\* addresses below the first top and in the heap next to it
Probes == {FromNat(Entry + k) : k \in {0, 1, 2, 3, 15, 16, 31}}

\* C18: the top-of-heap watermark never decreases over sbrk calls; a
\* request of 0 or one not above the watermark returns the watermark in x10
\* and changes neither watermark nor memory; a request above it makes the
\* addresses old top + 1 .. req readable as zero (checked at both ends),
\* sets the watermark to req, returns req and keeps the bytes at or below
\* the old watermark.
C18_SbrkWatermark ==
    [][/\ ~LtU(host'.top_of_mem, host.top_of_mem)
       /\ last'.op = "sbrk" =>
            LET req == last'.req
                top == host.top_of_mem
            IN  IF req = Z64 \/ LeU(req, top)
                THEN /\ getReg(ireg', 10) = top
                     /\ host'.top_of_mem = top
                     /\ blocks' = blocks
                ELSE /\ getReg(ireg', 10) = req
                     /\ host'.top_of_mem = req
                     /\ \A a \in {Add64(top, FromNat(1)), req} :
                            /\ Readable(blocks', a)
                            /\ readMem(blocks', a, 1, junk) = Z64
                     /\ \A a \in {p \in Probes : LeU(p, top)} :
                            readMem(blocks', a, 1, junk) = readMem(blocks, a, 1, junk)]_vars

-----------------------------------------------------------------------------
(* Properties of open, checked under SpecOpen *)

\* C19: openat of /dev/tty returns guest FD 1 and leaves the FD table
\* alone; of any other path it appends the host FD of the opened file to
\* the table and returns the table's size before the call; with a null
\* path pointer, or when the host's open fails, it returns -1 in x10.
C19_OpenReturns ==
    [][last'.op = "open" =>
         CASE last'.path = Z64 ->
                /\ getReg(ireg', 10) = Ones64
                /\ host'.fds = host.fds
           [] last'.path = TtyVa ->
                /\ getReg(ireg', 10) = FromNat(1)
                /\ host'.fds = host.fds
           [] OTHER ->
                IF env.hostfail
                THEN getReg(ireg', 10) = Ones64
                ELSE /\ getReg(ireg', 10) = FromNat(Len(host.fds))
                     /\ Len(host'.fds) = Len(host.fds) + 1
                     /\ SubSeq(host'.fds, 1, Len(host.fds)) = host.fds
                     /\ host'.fds[Len(host'.fds)] # BadFd]_vars

-----------------------------------------------------------------------------
(* Properties of readlinkat, checked under SpecReadlink *)

\* the n bytes of guest memory from va on
BytesAt(blks, va, n) == [k \in 1..n |-> readMem(blks, Add64(va, FromNat(k - 1)), 1, 0)[1]]

\* C20: readlinkat of /proc/self/exe copies the bytes of the loaded
\* program's name into the guest buffer, at most buf_sz of them, and
\* returns the number of bytes written; for any other path it writes
\* nothing and returns 0; with a null path, a null buffer or a size of zero
\* it returns -1.
C20_ReadlinkatProgName ==
    [][last'.op = "readlinkat" =>
         IF last'.path = Z64 \/ last'.buf = Z64 \/ last'.buf_sz = Z64
         THEN getReg(ireg', 10) = Ones64 /\ blocks' = blocks
         ELSE IF last'.path # ExeVa
         THEN getReg(ireg', 10) = Z64 /\ blocks' = blocks
         ELSE LET n == IF LtU(last'.buf_sz, FromNat(Len(host.prog_name)))
                       THEN ToNat(last'.buf_sz) ELSE Len(host.prog_name)
              IN  /\ getReg(ireg', 10) = FromNat(n)
                  /\ BytesAt(blocks', last'.buf, n) = SubSeq(host.prog_name, 1, n)
                  /\ BytesAt(blocks', Add64(last'.buf, FromNat(n)), BufLen - n)
                       = BytesAt(blocks, Add64(last'.buf, FromNat(n)), BufLen - n)]_vars


-----------------------------------------------------------------------------
(* Properties of the write system call and of completeEnv, checked under
   SpecEnv *)

\* the pairs <<host descriptor, byte>> that sending the n bytes at buf to
\* sim_fd adds to the host's output
SentTo(blks, sim_fd, buf, n) == [k \in 1..n |-> <<sim_fd, BytesAt(blks, buf, n)[k]>>]

\* the host takes what the guest writes to the descriptor fd of the table:
\* the file behind it is open for writing and the host's write succeeds
HostTakes(fd) ==
    /\ ~env.hostfail
    /\ host.fds[fd[1] + 1] # BadFd
    /\ host.opened[fd[1] + 1].write

\* C21: an ECALL with x17 = 64 whose descriptor x10 lies inside the table
\* of descriptors sends (to a host that takes them) exactly the x12 bytes of
\* guest memory at x11, in ascending order, to the host descriptor the table
\* maps it to, and returns x12 in x10; with a descriptor outside the table
\* it sends nothing and returns -1.  Either way it returns, changes no byte
\* of guest memory and no register other than x10.
C21_WriteSendsBytes ==
    [][last'.op = "write" =>
         IF LtU(last'.fd, FromNat(Len(host.fds)))
         THEN HostTakes(last'.fd) =>
                /\ ~hung'
                /\ getReg(ireg', 10) = last'.ct
                /\ last'.ct[3] = 0 /\ last'.ct[4] = 0 =>
                     host'.out = host.out \o SentTo(blocks, host.fds[last'.fd[1] + 1],
                                                    last'.buf, ToNat(last'.ct))
                /\ blocks' = blocks
                /\ \A r \in (1..31) \ {10} :
                       getReg(ireg', r) =
                           getReg(WriteArgs(Machine, last'.fd, last'.buf, last'.ct).ireg, r)
         ELSE /\ getReg(ireg', 10) = Ones64
              /\ host'.out = host.out
              /\ blocks' = blocks
              /\ \A r \in (1..31) \ {10} :
                     getReg(ireg', r) =
                         getReg(WriteArgs(Machine, last'.fd, last'.buf, last'.ct).ireg, r)]_vars

\* "hello" has gone to descriptor 1 of a program whose environment is
\* complete: the five bytes are in the host's output, x10 is 5
C21_Witness ==
    /\ last.op = "write"
    /\ last.fd = FromNat(1)
    /\ last.buf = HelloVa
    /\ Len(host.fds) = 3
    /\ host.out = [k \in 1..5 |-> <<host.fds[2], HelloBytes[k]>>]
    /\ getReg(ireg, 10) = FromNat(5)

\* the address in the 8-byte cell at va
CellAt(blks, va) == ToNat(readMem(blks, FromNat(va), 8, 0))

\* the strings completeEnv was given: the program's name, then the arguments
EnvStrs == <<host.prog_name>> \o last.args

\* the bytes [a, a + n) and [b, b + m) have nothing in common
Apart(a, n, b, m) == a + n <= b \/ b + m <= a

-----------------------------------------------------------------------------
(* Properties of the decoder, checked under SpecExec *)

-----------------------------------------------------------------------------
(* Properties of the shifts and the multiplications, checked under SpecAlu *)

\* the executed instruction is of class cls, with destination x3
Ran(cls) == last'.op = "exec" /\ last'.inst.cls = cls /\ last'.inst.rd = 3

\* C24: SLL, SRL and SRA shift rs1 by the low 6 bits of rs2 (rs2 mod 64),
\* SLL and SRL logically and SRA arithmetically, for every value of rs1 and
\* every 64-bit value of rs2.
C24_ShiftUsesLowSixBits ==
    [][(Ran("OpRegReg") /\ last'.inst.op \in {1, 5}) =>
         LET vr1 == getReg(ireg, last'.inst.r1)
             amt == getReg(ireg, last'.inst.r2)[1] % 64
         IN  getReg(ireg', 3) = IF last'.inst.op = 1 THEN Shl64(vr1, amt)
                                ELSE IF last'.inst.op30 THEN Sra64(vr1, amt)
                                ELSE Shr64(vr1, amt)]_vars

\* the upper half of the 128-bit product of a as a signed and b as an
\* unsigned number
MulHighSU(a, b) == IF IsNeg(a) THEN Sub64(Mul128(a, b)[2], b) ELSE Mul128(a, b)[2]

\* C25: MUL returns bits [63:0], and MULH, MULHSU and MULHU return bits
\* [127:64], of the 128-bit product of the operands taken as signed*signed,
\* signed*unsigned and unsigned*unsigned.
C25_MulHighHalf ==
    [][(Ran("ImulDiv") /\ last'.inst.op \in 0..3) =>
         LET vr1 == getReg(ireg, last'.inst.r1)
             vr2 == getReg(ireg, last'.inst.r2)
         IN  getReg(ireg', 3) = CASE last'.inst.op = 0 -> Mul128(vr1, vr2)[1]
                                  [] last'.inst.op = 1 -> MulHighS(vr1, vr2)
                                  [] last'.inst.op = 2 -> MulHighSU(vr1, vr2)
                                  [] OTHER -> Mul128(vr1, vr2)[2]]_vars

\* C26: SLLIW, SRLIW and SRAIW shift the low 32 bits of rs1 (SRAIW
\* arithmetically) and write the sign-extended 32-bit result; SRLW and SRAW
\* decode to an instruction.
C26_WordShifts ==
    [][/\ Decode(SrlwWord[1], SrlwWord[2]) # NoInst
       /\ Decode(SrawWord[1], SrawWord[2]) # NoInst
       /\ Ran("Slliw") =>
            getReg(ireg', 3) = Sext32(Shl64(getReg(ireg, last'.inst.r1), last'.inst.imm))
       /\ Ran("Sraliw") =>
            getReg(ireg', 3) =
                IF last'.inst.arith
                THEN Sext32(Sra64(Sext32(getReg(ireg, last'.inst.r1)), last'.inst.imm))
                ELSE Sext32(Shr64(Zext32(getReg(ireg, last'.inst.r1)), last'.inst.imm))]_vars


-----------------------------------------------------------------------------
(* Properties of C.LWSP, checked under SpecLwsp *)

\* C28: C.LWSP with rd # 0 loads the 4 bytes at x2 + offset, sign-extended,
\* into rd, where offset[5] = word[12], offset[4:2] = word[6:4] and
\* offset[7:6] = word[3:2]: executing the word built for any multiple of 4
\* in 0..252 loads from x2 plus that multiple.
C28_LwspOffset ==
    [][\A w \in LwspWords :
         (last'.op = "exec" /\ last'.inst = Decode(w[1], w[2])) =>
            /\ LwspOff(w[1]) \in {4 * k : k \in 0..63}
            /\ getReg(ireg', 5) =
                 Sext32(readMem(blocks, Add64(getReg(ireg, 2), FromNat(LwspOff(w[1]))),
                                4, junk))
            /\ pc' = Add64(pc, FromNat(2))
            /\ blocks' = blocks]_vars


-----------------------------------------------------------------------------
(* Properties of LR and SC, checked under SpecLrsc *)

\* the addresses of the block of SpecLrsc
LrscProbes == {Add64(DataVa, FromNat(k)) : k \in 0..(Len(AmoBytes) - 1)}

\* C27: no reservation is tracked.  Whatever came before, an SC.W or SC.D on
\* mapped memory stores the low 4 or 8 bytes of rs2 at the address in rs1
\* (and no other byte) and writes 0 to rd; an LR.W or LR.D loads the 4 or 8
\* bytes at the address in rs1 into rd and leaves memory unchanged.
C27_NoReservation ==
    [][(last'.op = "exec" /\ last'.inst.cls = "LoadReserveStoreCond") =>
         LET i    == last'.inst
             sz   == IF i.dword THEN 8 ELSE 4
             addr == getReg(ireg, i.ar)
             data == getReg(ireg, i.r2)
             at   == {Add64(addr, FromNat(k)) : k \in 0..(sz - 1)}
         IN  ServeIdx(blocks, addr, sz) # 0 =>
               /\ pc' = Add64(pc, Four)
               /\ IF i.is_store
                  THEN /\ BytesAt(blocks', addr, sz) = [k \in 1..sz |-> ByteOf(data, k - 1)]
                       /\ \A a \in LrscProbes \ at :
                              readMem(blocks', a, 1, junk) = readMem(blocks, a, 1, junk)
                       /\ getReg(ireg', i.rd) = Z64
                  ELSE /\ blocks' = blocks
                       /\ IF i.dword
                          THEN getReg(ireg', i.rd) = readMem(blocks, addr, 8, junk)
                          ELSE Zext32(getReg(ireg', i.rd)) = readMem(blocks, addr, 4, junk)]_vars

\* an SC.W that no LR preceded has stored the 7 of x7 over the 5 at the
\* start of the block and reported success
C27_Witness ==
    /\ last.op = "exec"
    /\ last.inst.cls = "LoadReserveStoreCond"
    /\ last.inst.is_store
    /\ last.inst.rd = 5
    /\ steps = 3
    /\ getReg(ireg, 9) = DataVa
    /\ getReg(ireg, 7) = FromNat(7)
    /\ getReg(ireg, 5) = Z64
    /\ BytesAt(blocks, DataVa, 4) = <<7, 0, 0, 0>>


-----------------------------------------------------------------------------
(* Properties of the growth of a block, checked under SpecMem *)

\* C29: an addBlock(va, n, data) that is merged into the block b whose end
\* is va leaves b covering exactly [b.va, va + n), with the bytes it held
\* unchanged and the n new bytes holding data (zero without data); the call
\* stores no byte outside the grown buffer (and so reads no byte past
\* data[n-1]), and no other block is changed.
C29_GrowKeepsAndAppends ==
    [][(last'.op = "addBlock" /\ last'.grew # 0) =>
         LET g  == last'.grew
             b  == blocks[g]
             b2 == blocks'[g]
             n  == ToNat(last'.sz)
         IN  /\ last'.over = Z64
             /\ ~crashed'
             /\ Len(blocks') = Len(blocks)
             /\ \A j \in (1..Len(blocks)) \ {g} : blocks'[j] = blocks[j]
             /\ b2.va = b.va
             /\ BlockEnd(b2) = Add64(last'.va, last'.sz)
             /\ \A k \in 0..(ToNat(b.sz) - 1) : MemByte(b2, FromNat(k)) = MemByte(b, FromNat(k))
             /\ \A k \in 0..(n - 1) :
                    MemByte(b2, Add64(b.sz, FromNat(k))) =
                        IF last'.data = NoData THEN 0 ELSE last'.data[k + 1]]_vars


-----------------------------------------------------------------------------
(* Properties of the dataflow tool, checked under SpecDfg *)

\* the lines before line i that decode and whose dsts contain dep
WritersBefore(lines, i, dep) ==
    {j \in 1..(i - 1) : lines[j] # NoInst
                        /\ \E k \in 1..Len(dsts(lines[j])) : dsts(lines[j])[k] = dep}

\* the greatest element of a non-empty set of numbers
Latest(S) == CHOOSE j \in S : \A k \in S : k <= j

\* C30: the producers printed for line i (lines counted from 1, the lines
\* without a decode counted too) are, source by source, the index of the
\* latest earlier line that decodes and has the source among its dsts, in
\* the same register file; a source no earlier line wrote prints nothing.
C30_ProducersAreLatestWriters ==
    /\ run.icount = Len(run.lines)
    /\ (last.op = "line" /\ last.inst # NoInst) =>
         LET i  == Len(run.lines)
             ss == srcs(last.inst)
             w(k) == WritersBefore(run.lines, i, ss[k])
         IN  last.printed =
               SelectSeq([k \in 1..Len(ss) |-> IF w(k) = {} THEN 0 ELSE Latest(w(k))],
                         LAMBDA p : p # 0)

\* line 1 wrote x1, line 2 wrote f1 from it, line 3 reads f1 and f2: the
\* producer of f1 is line 2 (not line 1, which wrote the integer register
\* of that number), f2 has none
C30_Witness ==
    /\ run.icount = 3
    /\ run.lines[1].cls = "OpImm"
    /\ run.lines[2].cls = "Fmove"
    /\ last.op = "line"
    /\ last.inst.cls = "Fsign"
    /\ last.printed = <<2>>

====
